---- MODULE Spec2Model ----
(***************************************************************************)
(* A model of the openclaw-rag-skill scripts: the text chunker and the     *)
(* document ingest paths (ingest_docs.py), the session parser and message  *)
(* chunker (ingest_sessions.py) and the ID generation of the store facade  *)
(* (rag_system.py).                                                        *)
(*                                                                         *)
(* A Python string is a sequence of one-character strings: <<"h", "i">>    *)
(* is "hi", " " is a space and "\n" a newline.  The token Run stands for   *)
(* a run of BlockChars non-whitespace characters, so that the real limits  *)
(* of the call sites (3000, 4000) are reached by short texts; split and    *)
(* strip never cut such a run.                                             *)
(***************************************************************************)
EXTENDS Integers, Sequences, FiniteSets, TLC

VARIABLES pc,         \* position of the script being run
          content,    \* docs: the text of the file read, or the text given to chunk_text
          caller,     \* docs: which entry point is run
          max_chars,  \* docs: chunk_text's max_chars argument
          overlap,    \* the overlap argument of chunk_text or chunk_messages
          chunks,     \* the chunk list the caller holds
          handed,     \* the documents handed to the store so far: <<[text, metadata]>>
          lines,      \* sessions: the lines of the session log read
          messages,   \* sessions: the message list (parse_jsonl's result)
          context_window, \* sessions: chunk_messages' context_window argument
          raised,     \* sessions: the exception that ended the call, or "none"
          fc_content, \* sessions: the content given to format_content
          formatted,  \* sessions: the string format_content returned
          now,        \* the clock: what datetime.now() reads
          collection, \* store: the records of the collection: {[id, text, metadata]}
          returned,   \* store: the IDs returned so far, each with the call that got it
          call,       \* calls: the arguments of the call being run, and what its
                      \*        environment does (the store failing, the answers typed)
          outcome,    \* calls: what the call returned
          store_calls \* calls: the calls made to the store, in order

docVars == <<content, max_chars>>
sessionVars == <<lines, messages, context_window, raised, fc_content, formatted>>
storeVars == <<collection, returned>>
callVars == <<call, outcome, store_calls>>
vars == <<pc, caller, overlap, chunks, handed, now, docVars, sessionVars, storeVars, callVars>>

----------------------------------------------------------------------------
(* Bounds of the model *)

MaxLen == 7
MaxChars == 6
MaxOverlap == 1
BlockChars == 2000
MaxLines == 3
MaxSmallMsgs == 2
MaxMsgs == 45
MaxWindow == 3
MaxClock == 1
MaxDocs == 2
MaxBatch == 2
MaxItems == 2
MaxStored == 2
MaxResults == 2

(* Program constants *)

DefaultMaxChars == 4000
DefaultOverlap == 200
WorkspaceChunkOver == 4000
SkillMaxChars == 3000
SkillOverlap == 100

----------------------------------------------------------------------------
(* Python strings *)

Whitespace == {" ", "\n"}
Sep == <<"\n", "\n">>
Run == "<run>"

TextsOver(alphabet) == UNION {[1..n -> alphabet] : n \in 0..MaxLen}

(* The texts chunk_text is given directly, and the texts of the files. *)
Texts == TextsOver({"a"} \cup Whitespace)
FileTexts == TextsOver({Run} \cup Whitespace)

CharLen(c) == IF c = Run THEN BlockChars ELSE 1

(* len(s): one for each element, and the rest of a run for each Run. *)
StrLen(s) ==
    Len(s) + (BlockChars - 1) * Cardinality({i \in 1..Len(s) : CharLen(s[i]) = BlockChars})

RECURSIVE LStrip(_)
LStrip(s) == IF s # <<>> /\ Head(s) \in Whitespace THEN LStrip(Tail(s)) ELSE s

RECURSIVE RStrip(_)
RStrip(s) ==
    IF s # <<>> /\ s[Len(s)] \in Whitespace
    THEN RStrip(SubSeq(s, 1, Len(s) - 1))
    ELSE s

Strip(s) == RStrip(LStrip(s))

(* text.split('\n\n'): the separators are found left to right and do not
   overlap; the empty text splits into one empty piece. *)
RECURSIVE SplitAcc(_, _)
SplitAcc(s, cur) ==
    IF s = <<>> THEN <<cur>>
    ELSE IF Len(s) >= 2 /\ s[1] = "\n" /\ s[2] = "\n"
         THEN <<cur>> \o SplitAcc(SubSeq(s, 3, Len(s)), <<>>)
         ELSE SplitAcc(Tail(s), Append(cur, Head(s)))

Split(s) == SplitAcc(s, <<>>)

(* str(i) of a natural number. *)
(* Python values: a string, None, or a list of items *)
PyNone == [t |-> "none", v |-> <<>>]
PyStr(s) == [t |-> "str", v |-> s]
PyList(items) == [t |-> "list", v |-> items]

(* No call is being run. *)
NoCall == [op |-> "none"]

(* "a" * k *)
Pad(k) == [i \in 1..k |-> "a"]

Digit(d) == <<"0", "1", "2", "3", "4", "5", "6", "7", "8", "9">>[d + 1]

RECURSIVE Digits(_)
Digits(i) == IF i < 10 THEN <<Digit(i)>> ELSE Digits(i \div 10) \o <<Digit(i % 10)>>

(* datetime.now().isoformat() when the clock reads t: a different string
   for every reading. *)
Iso(t) == <<"T">> \o Digits(t)

W_workspace == <<"w", "o", "r", "k", "s", "p", "a", "c", "e">>
W_skill == <<"s", "k", "i", "l", "l">>
W_session == <<"s", "e", "s", "s", "i", "o", "n">>
W_file == <<"f", ".", "m", "d">>
W_skill_source == W_skill \o <<":", "x">>

----------------------------------------------------------------------------
(* chunk_text *)

ChunkStart == [chunks |-> <<>>, current_chunk |-> <<>>]

(* ChunkStep with the running buffer's length left out of the test. *)
ChunkStep_ignores_buffer(st, para, maxc) ==
    IF StrLen(para) + 2 <= maxc
    THEN [st EXCEPT !.current_chunk = @ \o para \o Sep]
    ELSE [chunks |-> IF st.current_chunk # <<>>
                     THEN Append(st.chunks, Strip(st.current_chunk))
                     ELSE st.chunks,
          current_chunk |-> para \o Sep]

(* One pass of the loop over the paragraphs. *)
ChunkStep(st, para, maxc) ==
    IF StrLen(st.current_chunk) + StrLen(para) + 2 <= maxc
    THEN [st EXCEPT !.current_chunk = @ \o para \o Sep]
    ELSE [chunks |-> IF st.current_chunk # <<>>
                     THEN Append(st.chunks, Strip(st.current_chunk))
                     ELSE st.chunks,
          current_chunk |-> para \o Sep]

(* The loop's state after its first k paragraphs. *)
RECURSIVE ChunkLoop(_, _, _)
ChunkLoop(paragraphs, k, maxc) ==
    IF k = 0 THEN ChunkStart
    ELSE ChunkStep(ChunkLoop(paragraphs, k - 1, maxc), paragraphs[k], maxc)

(* ChunkFlush with the last buffer forgotten. *)
ChunkFlush_forgets_last(st) == st.chunks

(* The flush after the loop. *)
ChunkFlush(st) ==
    IF st.current_chunk # <<>>
    THEN Append(st.chunks, Strip(st.current_chunk))
    ELSE st.chunks

LastChars(s, k) == SubSeq(s, IF Len(s) > k THEN Len(s) - k + 1 ELSE 1, Len(s))

(* chunk_text with the length test made strict. *)
chunk_text_strict_limit(text, maxc, ovl) ==
    IF StrLen(text) < maxc
    THEN <<text>>
    ELSE LET paragraphs == Split(text)
         IN  ChunkFlush(ChunkLoop(paragraphs, Len(paragraphs), maxc))

(* chunk_text with the overlap applied: each chunk after the first starts
   with the last ovl characters of the chunk before it. *)
chunk_text_applies_overlap(text, maxc, ovl) ==
    IF StrLen(text) <= maxc
    THEN <<text>>
    ELSE LET paragraphs == Split(text)
             plain == ChunkFlush(ChunkLoop(paragraphs, Len(paragraphs), maxc))
         IN  [j \in 1..Len(plain) |->
                 IF j = 1 THEN plain[j]
                 ELSE LastChars(plain[j - 1], ovl) \o plain[j]]

chunk_text(text, maxc, ovl) ==
    IF StrLen(text) <= maxc
    THEN <<text>>
    ELSE LET paragraphs == Split(text)
         IN  ChunkFlush(ChunkLoop(paragraphs, Len(paragraphs), maxc))

----------------------------------------------------------------------------
(* The document ingest paths *)

WorkspaceChunks(text) ==
    IF StrLen(text) > WorkspaceChunkOver
    THEN chunk_text(text, DefaultMaxChars, DefaultOverlap)
    ELSE <<text>>

(* WorkspaceDocs with the chunks numbered from one. *)
WorkspaceDocs_numbers_from_one(text, text_chunks, clock) ==
    [i \in 1..Len(text_chunks) |->
        [text |-> text_chunks[i],
         metadata |-> [type |-> W_workspace, source |-> W_file,
                       file_size |-> StrLen(text),
                       chunk_index |-> i,
                       total_chunks |-> Len(text_chunks),
                       ingested_at |-> Iso(clock)]]]

WorkspaceDocs(text, text_chunks, clock) ==
    [i \in 1..Len(text_chunks) |->
        [text |-> text_chunks[i],
         metadata |-> [type |-> W_workspace, source |-> W_file,
                       file_size |-> StrLen(text),
                       chunk_index |-> i - 1,
                       total_chunks |-> Len(text_chunks),
                       ingested_at |-> Iso(clock)]]]

SkillDocs(text_chunks, clock) ==
    [i \in 1..Len(text_chunks) |->
        [text |-> text_chunks[i],
         metadata |-> [type |-> W_skill, source |-> W_skill_source,
                       chunk_index |-> i - 1,
                       total_chunks |-> Len(text_chunks),
                       ingested_at |-> Iso(clock)]]]

InitDocs ==
    /\ pc = "start"
    /\ caller \in {"chunk_text", "workspace", "skills"}
    /\ content \in IF caller = "chunk_text" THEN Texts ELSE FileTexts
    /\ max_chars \in IF caller = "chunk_text" THEN 0..MaxChars
                     ELSE IF caller = "workspace" THEN {DefaultMaxChars}
                     ELSE {SkillMaxChars}
    /\ overlap \in IF caller = "chunk_text" THEN {0, MaxOverlap}
                   ELSE IF caller = "workspace" THEN {DefaultOverlap}
                   ELSE {SkillOverlap}
    /\ chunks = <<>>
    /\ handed = <<>>
    /\ now = 0
    /\ lines = <<>> /\ messages = <<>> /\ context_window = 0 /\ raised = "none"
    /\ fc_content = PyNone /\ formatted = <<>>
    /\ collection = {} /\ returned = {}
    /\ call = NoCall /\ outcome = PyNone /\ store_calls = <<>>

(* chunk_text called on its own. *)
CallChunkText ==
    /\ pc = "start" /\ caller = "chunk_text"
    /\ chunks' = chunk_text(content, max_chars, overlap)
    /\ pc' = "done"
    /\ UNCHANGED <<content, caller, max_chars, overlap, handed, now, sessionVars, storeVars, callVars>>

(* ingest_workspace on one file that was read. *)
IngestWorkspaceFile ==
    /\ pc = "start" /\ caller = "workspace"
    /\ chunks' = WorkspaceChunks(content)
    /\ handed' = handed \o WorkspaceDocs(content, chunks', now)
    /\ pc' = "done"
    /\ UNCHANGED <<content, caller, max_chars, overlap, now, sessionVars, storeVars, callVars>>

(* ingest_skills on one SKILL.md that was read. *)
IngestSkillFile ==
    /\ pc = "start" /\ caller = "skills"
    /\ chunks' = chunk_text(content, max_chars, overlap)
    /\ handed' = handed \o SkillDocs(chunks', now)
    /\ pc' = "done"
    /\ UNCHANGED <<content, caller, max_chars, overlap, now, sessionVars, storeVars, callVars>>

NextDocs == CallChunkText \/ IngestWorkspaceFile \/ IngestSkillFile

SpecDocs == InitDocs /\ [][NextDocs]_vars

----------------------------------------------------------------------------
(* Properties of the text chunker and of the document ingest paths *)

RECURSIVE Join(_, _, _)
Join(paras, i, j) ==
    IF i > j THEN <<>>
    ELSE IF i = j THEN paras[i]
    ELSE paras[i] \o Sep \o Join(paras, i + 1, j)

RECURSIVE SumLen(_)
SumLen(cs) == IF cs = <<>> THEN 0 ELSE StrLen(Head(cs)) + SumLen(Tail(cs))

(* The chunks cs[j..] are the trimmed joins of consecutive runs of the
   paragraphs paras[from..], which they use up in order. *)
RECURSIVE Covers(_, _, _, _)
Covers(paras, from, cs, j) ==
    IF j > Len(cs) THEN from > Len(paras)
    ELSE \E e \in from..Len(paras) :
            /\ cs[j] = Strip(Join(paras, from, e))
            /\ Covers(paras, e + 1, cs, j + 1)

(* As Covers, and a paragraph longer than maxc is a run of its own. *)
RECURSIVE CoversAlone(_, _, _, _, _)
CoversAlone(paras, from, cs, j, maxc) ==
    IF j > Len(cs) THEN from > Len(paras)
    ELSE \E e \in from..Len(paras) :
            /\ cs[j] = Strip(Join(paras, from, e))
            /\ (\E k \in from..e : StrLen(paras[k]) > maxc) => from = e
            /\ CoversAlone(paras, e + 1, cs, j + 1, maxc)

(* The pieces of every chunk, in chunk order. *)
RECURSIVE Pieces(_)
Pieces(cs) == IF cs = <<>> THEN <<>> ELSE Split(Head(cs)) \o Pieces(Tail(cs))

(* The non-blank entries of a list of strings, each trimmed. *)
RECURSIVE NonBlank(_)
NonBlank(ps) ==
    IF ps = <<>> THEN <<>>
    ELSE IF Strip(Head(ps)) = <<>> THEN NonBlank(Tail(ps))
    ELSE <<Strip(Head(ps))>> \o NonBlank(Tail(ps))

ChunkTextRan == pc = "done" /\ caller \in {"chunk_text", "skills"}

(* C2: every text handed to add_document by a write path is non-empty after
   trimming. *)
C2_HandedTextNonEmpty ==
    \A i \in 1..Len(handed) : Strip(handed[i].text) # <<>>

(* C6: a text of length at most max_chars comes back from chunk_text as the
   one-element list holding the text itself, untrimmed. *)
C6_WithinLimitUnchanged ==
    (ChunkTextRan /\ StrLen(content) <= max_chars) => chunks = <<content>>

C6_Witness ==
    /\ ChunkTextRan
    /\ StrLen(content) = max_chars
    /\ Strip(content) # content
    /\ chunks = <<content>>

(* C7: for a text longer than max_chars the chunks are, in order, the
   trimmed joins of consecutive runs of the input's paragraphs, every
   paragraph in exactly one run; so the non-blank pieces of the chunks are
   the non-blank paragraphs of the input, in the same order. *)
C7_ParagraphsPreserved ==
    (ChunkTextRan /\ StrLen(content) > max_chars) =>
        /\ Covers(Split(content), 1, chunks, 1)
        /\ NonBlank(Pieces(chunks)) = NonBlank(Split(content))

C7_Witness ==
    /\ ChunkTextRan
    /\ StrLen(content) > max_chars
    /\ Len(chunks) >= 2
    /\ \A j \in 1..Len(chunks) : chunks[j] # <<>>
    /\ \E j \in 1..Len(chunks) : Len(Split(chunks[j])) >= 2

(* C8: a paragraph longer than max_chars is a chunk of its own: the chunks
   are the trimmed joins of consecutive runs of paragraphs in which every
   such paragraph is a run by itself. *)
C8_LongParagraphAlone ==
    (ChunkTextRan /\ StrLen(content) > max_chars) =>
        CoversAlone(Split(content), 1, chunks, 1, max_chars)

C8_Witness ==
    /\ ChunkTextRan
    /\ StrLen(content) > max_chars
    /\ LET paras == Split(content)
       IN  /\ Len(paras) = 3
           /\ StrLen(paras[1]) + 2 <= max_chars
           /\ StrLen(paras[2]) > max_chars
           /\ Strip(paras[1]) # <<>>
           /\ chunks = <<Strip(paras[1]), Strip(paras[2]), Strip(paras[3])>>

OverlapValues == {0, MaxOverlap, DefaultOverlap, SkillOverlap}

(* C9: chunk_text gives the same chunks for every overlap value, and the
   chunks repeat nothing: their lengths and the separators between them
   add up to no more than the input's length. *)
C9_OverlapIgnored ==
    ChunkTextRan =>
        /\ \A o \in OverlapValues : chunk_text(content, max_chars, o) = chunks
        /\ SumLen(chunks) + 2 * (Len(chunks) - 1) <= StrLen(content)

C9_Witness ==
    /\ ChunkTextRan
    /\ overlap > 0
    /\ Len(chunks) >= 2
    /\ \A j \in 1..Len(chunks) : chunks[j] # <<>>

----------------------------------------------------------------------------
(* Python values in a session log *)

(* bool(x) *)
Truthy(x) == x.t # "none" /\ x.v # <<>>

W_None == <<"N", "o", "n", "e">>
W_user == <<"u", "s", "e", "r">>
W_hi == <<"h", "i">>

LowerCase == <<"a", "b", "c", "d", "e", "f", "g", "h", "i", "j", "k", "l", "m",
               "n", "o", "p", "q", "r", "s", "t", "u", "v", "w", "x", "y", "z">>
UpperCase == <<"A", "B", "C", "D", "E", "F", "G", "H", "I", "J", "K", "L", "M",
               "N", "O", "P", "Q", "R", "S", "T", "U", "V", "W", "X", "Y", "Z">>

UpperChar(c) ==
    IF \E k \in 1..26 : LowerCase[k] = c
    THEN UpperCase[CHOOSE k \in 1..26 : LowerCase[k] = c]
    ELSE c

(* s.upper() *)
Upper(s) == [k \in 1..Len(s) |-> UpperChar(s[k])]

----------------------------------------------------------------------------
(* parse_jsonl *)

(* A line of the log, by what line.strip() and json.loads make of it:
   "blank" (empty after strip), "text" (json.loads raises JSONDecodeError),
   "value" (JSON that is no object: a number, a list, ...), or "object".
   An object has a type ("session", "message", "other", or "missing"), the
   event's timestamp, id and sessionKey (None when absent), and a message
   field that is a dict ("dict"), absent ("missing") or null ("null"). *)
Line(kind, type, shape, role, cont, ts, id) ==
    [kind |-> kind, type |-> type,
     message |-> [shape |-> shape, role |-> role, content |-> cont],
     timestamp |-> ts, id |-> id, sessionKey |-> PyNone]

EventRoles == {PyStr(W_user), PyNone}
EventContents == {PyStr(W_hi), PyStr(<<" ">>)}
EventId == PyStr(<<"e", "1">>)
EventTime == PyStr(<<"t", "1">>)
EventStamps == {<<EventTime, EventId>>, <<EventTime, PyNone>>}

LogLines ==
    {Line(k, "missing", "missing", PyNone, PyNone, PyNone, PyNone) :
        k \in {"blank", "text", "value"}}
    \cup {Line("object", ty, "missing", PyNone, PyNone, EventTime, EventId) :
        ty \in {"session", "other", "missing", "message"}}
    \cup {Line("object", "message", "null", PyNone, PyNone, EventTime, EventId)}
    \cup {Line("object", "message", "dict", r, c, st[1], st[2]) :
        r \in EventRoles, c \in EventContents, st \in EventStamps}

LogFiles == UNION {[1..n -> LogLines] : n \in 0..MaxLines}

ParseStart == [messages |-> <<>>, failed |-> FALSE]

(* The loop body with every exception of a line caught where
   JSONDecodeError is. *)
ParseLine_skips_any_error(st, line, line_num) ==
    IF line.kind # "object" THEN st
    ELSE IF line_num = 1 /\ line.type = "session" THEN st
    ELSE IF line.type = "message"
         THEN IF line.message.shape = "null" THEN st
              ELSE [st EXCEPT !.messages = Append(@,
                        [role |-> line.message.role,
                         content |-> line.message.content,
                         timestamp |-> line.timestamp,
                         id |-> line.id,
                         sessionKey |-> line.sessionKey])]
         ELSE st

(* The loop body for one line.  An exception that is no JSONDecodeError
   (event.get on a value that is no dict, msg_obj.get on None) leaves the
   loop for the outer handler: no later line is read. *)
ParseLine(st, line, line_num) ==
    IF st.failed THEN st
    ELSE IF line.kind = "blank" THEN st
    ELSE IF line.kind = "text" THEN st
    ELSE IF line.kind = "value" THEN [st EXCEPT !.failed = TRUE]
    ELSE IF line_num = 1 /\ line.type = "session" THEN st
    ELSE IF line.type = "message"
         THEN IF line.message.shape = "null"
              THEN [st EXCEPT !.failed = TRUE]
              ELSE [st EXCEPT !.messages = Append(@,
                        [role |-> line.message.role,
                         content |-> line.message.content,
                         timestamp |-> line.timestamp,
                         id |-> line.id,
                         sessionKey |-> line.sessionKey])]
         ELSE st

RECURSIVE ParseLoop(_, _)
ParseLoop(ls, k) ==
    IF k = 0 THEN ParseStart ELSE ParseLine(ParseLoop(ls, k - 1), ls[k], k)

parse_jsonl(ls) == ParseLoop(ls, Len(ls)).messages

----------------------------------------------------------------------------
(* format_content *)

PyMissing == [t |-> "missing", v |-> <<>>]

(* An item of a content list: a dict with a type and string fields, each
   present (PyStr) or absent (PyMissing). *)
Item(type, text, name, arguments, result) ==
    [type |-> type, text |-> text, name |-> name,
     arguments |-> arguments, result |-> result]

(* d.get(key, default) of a string field. *)
GetStr(x, default) == IF x.t = "missing" THEN default ELSE x.v

(* s[:k] *)
Take(s, k) == SubSeq(s, 1, IF Len(s) < k THEN Len(s) ELSE k)

ToolArgsChars == 100
ToolResultChars == 500
OtherContentChars == 500

W_unknown == <<"u", "n", "k", "n", "o", "w", "n">>
W_Tool == <<"[", "T", "o", "o", "l", ":", " ">>
W_ToolResult == <<"[", "T", "o", "o", "l", " ", "R", "e", "s", "u", "l", "t", ":", " ">>
W_dots == <<".", ".", ".">>

(* The item's rendering with the arguments of a tool call kept whole. *)
FormatItem_keeps_arguments(item) ==
    IF item.type = "text" THEN <<GetStr(item.text, <<>>)>>
    ELSE IF item.type = "toolCall"
         THEN <<W_Tool \o GetStr(item.name, W_unknown) \o <<"(">>
                \o GetStr(item.arguments, <<>>) \o <<")", "]">>>>
    ELSE IF item.type = "toolResult"
         THEN LET result == Strip(GetStr(item.text, GetStr(item.result, <<>>)))
              IN  <<W_ToolResult
                    \o (IF Len(result) > ToolResultChars
                        THEN Take(result, ToolResultChars) \o W_dots
                        ELSE result)
                    \o <<"]">>>>
    ELSE <<>>

(* The item's rendering with a long tool result cut and nothing appended. *)
FormatItem_drops_ellipsis(item) ==
    IF item.type = "text" THEN <<GetStr(item.text, <<>>)>>
    ELSE IF item.type = "toolCall"
         THEN <<W_Tool \o GetStr(item.name, W_unknown) \o <<"(">>
                \o Take(GetStr(item.arguments, <<>>), ToolArgsChars) \o <<")", "]">>>>
    ELSE IF item.type = "toolResult"
         THEN <<W_ToolResult
                \o Take(Strip(GetStr(item.text, GetStr(item.result, <<>>))), ToolResultChars)
                \o <<"]">>>>
    ELSE <<>>

(* What one item adds to texts: a one-element list, or nothing. *)
FormatItem(item) ==
    IF item.type = "text" THEN <<GetStr(item.text, <<>>)>>
    ELSE IF item.type = "thinking" THEN <<>>
    ELSE IF item.type = "toolCall"
         THEN <<W_Tool \o GetStr(item.name, W_unknown) \o <<"(">>
                \o Take(GetStr(item.arguments, <<>>), ToolArgsChars) \o <<")", "]">>>>
    ELSE IF item.type = "toolResult"
         THEN LET result == Strip(GetStr(item.text, GetStr(item.result, <<>>)))
              IN  <<W_ToolResult
                    \o (IF Len(result) > ToolResultChars
                        THEN Take(result, ToolResultChars) \o W_dots
                        ELSE result)
                    \o <<"]">>>>
    ELSE <<>>

RECURSIVE FormatItems(_)
FormatItems(items) ==
    IF items = <<>> THEN <<>>
    ELSE FormatItem(Head(items)) \o FormatItems(Tail(items))

(* sep.join(parts) *)
RECURSIVE JoinWith(_, _)
JoinWith(parts, sep) ==
    IF parts = <<>> THEN <<>>
    ELSE IF Len(parts) = 1 THEN parts[1]
    ELSE parts[1] \o sep \o JoinWith(Tail(parts), sep)

format_content(cont) ==
    IF cont.t = "str" THEN cont.v
    ELSE IF cont.t = "list" THEN JoinWith(FormatItems(cont.v), <<"\n">>)
    ELSE Take(W_None, OtherContentChars)

----------------------------------------------------------------------------
(* chunk_messages *)

Min(a, b) == IF a < b THEN a ELSE b

(* messages[i:i + context_window], i counted from 0 *)
Window(msgs, i, cw) == SubSeq(msgs, i + 1, Min(i + cw, Len(msgs)))

(* The step of the loop over the window starts. *)
WindowStep_ignores_overlap(cw, ovl) == cw

WindowStep(cw, ovl) == cw - ovl

(* range(0, len(messages), context_window - overlap): how many starts. *)
WindowCount(n, cw, ovl) == (n + WindowStep(cw, ovl) - 1) \div WindowStep(cw, ovl)

(* The text parts of a window's messages.  role.upper() raises
   AttributeError when the role is None. *)
RECURSIVE RenderParts(_)
RenderParts(window) ==
    IF window = <<>> THEN [parts |-> <<>>, raised |-> "none"]
    ELSE LET msg == Head(window)
             text == format_content(msg.content)
             rest == RenderParts(Tail(window))
         IN  IF Strip(text) = <<>> THEN rest
             ELSE IF msg.role.t # "str"
                  THEN [parts |-> <<>>, raised |-> "AttributeError"]
             ELSE IF rest.raised # "none" THEN rest
             ELSE [parts |-> <<Upper(msg.role.v) \o <<":", " ">> \o text>> \o rest.parts,
                   raised |-> "none"]

(* str(x or "") and str(x or datetime.now().isoformat()) *)
StrOr(x, default) == IF Truthy(x) THEN x.v ELSE default

ChunkStartM == [chunks |-> <<>>, raised |-> "none"]

(* One pass of the loop: the window starting at i.  The name session_key
   is bound nowhere in chunk_messages or in the module: evaluating it, when
   the first message has neither sessionKey nor id, raises NameError. *)
WindowPass(st, msgs, i, cw, ovl, clock) ==
    IF st.raised # "none" THEN st
    ELSE LET window == Window(msgs, i, cw)
             r == RenderParts(window)
             text == JoinWith(r.parts, Sep)
             first == window[1]
             last == window[Len(window)]
         IN  IF r.raised # "none" THEN [st EXCEPT !.raised = r.raised]
             ELSE IF Strip(text) = <<>> THEN st
             ELSE IF ~Truthy(first.sessionKey) /\ ~Truthy(first.id)
                  THEN [st EXCEPT !.raised = "NameError"]
             ELSE [st EXCEPT !.chunks = Append(@,
                     [text |-> text,
                      metadata |->
                        [type |-> W_session,
                         source |-> IF Truthy(first.sessionKey)
                                    THEN first.sessionKey.v ELSE first.id.v,
                         chunk_index |-> i \div WindowStep(cw, ovl),
                         chunk_start_time |-> StrOr(first.timestamp, <<>>),
                         chunk_end_time |-> StrOr(last.timestamp, <<>>),
                         message_count |-> Len(window),
                         ingested_at |-> Iso(clock),
                         date |-> StrOr(first.timestamp, Iso(clock))]])]

(* The loop's state after its first k windows. *)
RECURSIVE WindowLoop(_, _, _, _, _)
WindowLoop(msgs, k, cw, ovl, clock) ==
    IF k = 0 THEN ChunkStartM
    ELSE WindowPass(WindowLoop(msgs, k - 1, cw, ovl, clock), msgs,
                    (k - 1) * WindowStep(cw, ovl), cw, ovl, clock)

(* chunk_messages: the chunk list, or the exception that ended the call. *)
chunk_messages(msgs, cw, ovl, clock) ==
    WindowLoop(msgs, WindowCount(Len(msgs), cw, ovl), cw, ovl, clock)

----------------------------------------------------------------------------
(* The session ingest *)

DefaultWindow == 20
DefaultWindowOverlap == 5

(* The i-th message of a list given to chunk_messages: its content is
   "m<i>" or blank, its id "e<i>", its timestamp "t<i>", its sessionKey
   "k", each present or None. *)
Msg(i, kind) ==
    [role |-> IF kind.role THEN PyStr(W_user) ELSE PyNone,
     content |-> IF kind.text THEN PyStr(<<"m">> \o Digits(i)) ELSE PyStr(<<" ">>),
     timestamp |-> IF kind.ts THEN PyStr(<<"t">> \o Digits(i)) ELSE PyNone,
     id |-> IF kind.id THEN PyStr(<<"e">> \o Digits(i)) ELSE PyNone,
     sessionKey |-> IF kind.key THEN PyStr(<<"k">>) ELSE PyNone]

MsgKinds ==
    [role : BOOLEAN, text : BOOLEAN, ts : {TRUE}, id : BOOLEAN, key : {FALSE}]
    \cup [role : {TRUE}, text : {TRUE}, ts : {FALSE}, id : {TRUE}, key : {FALSE}]
    \cup [role : {TRUE}, text : {TRUE}, ts : {TRUE}, id : BOOLEAN, key : {TRUE}]

(* Every list of up to MaxSmallMsgs messages, and the longer lists, up to
   MaxMsgs messages, whose messages are all of one kind. *)
MessageLists ==
    UNION {{[i \in 1..n |-> Msg(i, ks[i])] : ks \in [1..n -> MsgKinds]} :
              n \in 0..MaxSmallMsgs}
    \cup {[i \in 1..n |-> Msg(i, k)] : n \in (MaxSmallMsgs + 1)..MaxMsgs, k \in MsgKinds}

(* context_window and overlap with 0 <= overlap < context_window. *)
WindowArgs ==
    {a \in (1..MaxWindow) \X (0..(MaxWindow - 1)) : a[2] < a[1]}
        \cup {<<DefaultWindow, DefaultWindowOverlap>>}

(* The items of a structured content: text items, a thinking item, tool
   calls whose arguments fill the prefix kept or exceed it by one, tool
   results up to and beyond the length kept, with whitespace around them,
   or under the text key, an item of another type and an item that is no
   dict. *)
W_ok == <<"o", "k">>
W_tool_name == <<"s", "h">>
ContentItems ==
    {Item("text", t, PyMissing, PyMissing, PyMissing) : t \in {PyStr(W_hi), PyMissing}}
    \cup {Item("thinking", PyStr(W_hi), PyMissing, PyMissing, PyMissing)}
    \cup {Item("toolCall", PyMissing, PyStr(W_tool_name), a, PyMissing) :
            a \in {PyMissing, PyStr(Pad(ToolArgsChars)), PyStr(Pad(ToolArgsChars) \o <<"b">>)}}
    \cup {Item("toolCall", PyMissing, PyMissing, PyMissing, PyMissing)}
    \cup {Item("toolResult", PyMissing, PyMissing, PyMissing, r) :
            r \in {PyMissing, PyStr(W_ok), PyStr(<<" ">> \o W_ok \o <<"\n">>),
                   PyStr(Pad(ToolResultChars)), PyStr(Pad(ToolResultChars) \o <<"b">>)}}
    \cup {Item("toolResult", PyStr(W_hi), PyMissing, PyMissing, PyStr(W_ok))}
    \cup {Item("image", PyMissing, PyMissing, PyMissing, PyMissing),
          Item("nondict", PyMissing, PyMissing, PyMissing, PyMissing)}

(* The contents of a message: a string, None, or a list of up to MaxItems
   items. *)
MessageContents ==
    {PyStr(W_hi), PyStr(<<" ">>), PyNone}
    \cup {PyList(items) : items \in UNION {[1..n -> ContentItems] : n \in 0..MaxItems}}

(* The message lists with a structured content: one such message, alone or
   before a message of blank text. *)
StructuredMsg(c) ==
    [role |-> PyStr(W_user), content |-> c, timestamp |-> PyStr(<<"t", "1">>),
     id |-> PyStr(<<"e", "1">>), sessionKey |-> PyNone]
StructuredLists ==
    {<<StructuredMsg(c)>> : c \in MessageContents}
    \cup {<<StructuredMsg(c), Msg(2, k)>> :
             c \in MessageContents,
             k \in {k \in MsgKinds : k.role /\ ~k.text /\ k.id /\ k.ts /\ ~k.key}}

InitSessions ==
    /\ pc = "start"
    /\ caller \in {"parse_jsonl", "chunk_messages", "ingest_sessions", "format_content"}
    /\ lines \in IF caller \in {"parse_jsonl", "ingest_sessions"} THEN LogFiles ELSE {<<>>}
    /\ messages \in IF caller = "chunk_messages"
                    THEN MessageLists \cup StructuredLists ELSE {<<>>}
    /\ fc_content \in IF caller = "format_content" THEN MessageContents ELSE {PyNone}
    /\ formatted = <<>>
    /\ \E a \in IF caller = "chunk_messages" THEN WindowArgs
                ELSE {<<DefaultWindow, DefaultWindowOverlap>>} :
          context_window = a[1] /\ overlap = a[2]
    /\ chunks = <<>>
    /\ handed = <<>>
    /\ raised = "none"
    /\ now = 0
    /\ content = <<>> /\ max_chars = 0
    /\ collection = {} /\ returned = {}
    /\ call = NoCall /\ outcome = PyNone /\ store_calls = <<>>

(* parse_jsonl called on its own. *)
CallParseJsonl ==
    /\ pc = "start" /\ caller = "parse_jsonl"
    /\ messages' = parse_jsonl(lines)
    /\ pc' = "done"
    /\ UNCHANGED <<caller, overlap, chunks, handed, now, docVars, storeVars, callVars,
                   lines, context_window, raised, fc_content, formatted>>

(* chunk_messages called on its own: it returns its chunks or raises. *)
CallChunkMessages ==
    /\ pc = "start" /\ caller = "chunk_messages"
    /\ LET r == chunk_messages(messages, context_window, overlap, now)
       IN  /\ raised' = r.raised
           /\ chunks' = IF r.raised = "none" THEN r.chunks ELSE <<>>
    /\ pc' = "done"
    /\ UNCHANGED <<caller, overlap, handed, now, docVars, storeVars, callVars,
                   lines, messages, context_window, fc_content, formatted>>

(* ingest_sessions on one session file: parse, chunk, add the batch.  An
   exception of chunk_messages is not caught: it ends the run. *)
IngestSessionFile ==
    /\ pc = "start" /\ caller = "ingest_sessions"
    /\ messages' = parse_jsonl(lines)
    /\ LET r == chunk_messages(messages', context_window, overlap, now)
       IN  IF messages' = <<>>
           THEN /\ pc' = "done"
                /\ UNCHANGED <<chunks, handed, raised>>
           ELSE IF r.raised # "none"
           THEN /\ pc' = "crashed"
                /\ raised' = r.raised
                /\ UNCHANGED <<chunks, handed>>
           ELSE /\ pc' = "done"
                /\ chunks' = r.chunks
                /\ handed' = handed \o r.chunks
                /\ UNCHANGED raised
    /\ UNCHANGED <<caller, overlap, now, docVars, storeVars, callVars, lines, context_window,
                   fc_content, formatted>>

(* format_content called on its own. *)
CallFormatContent ==
    /\ pc = "start" /\ caller = "format_content"
    /\ formatted' = format_content(fc_content)
    /\ pc' = "done"
    /\ UNCHANGED <<caller, overlap, chunks, handed, now, docVars, storeVars, callVars,
                   lines, messages, context_window, raised, fc_content>>

NextSessions == CallParseJsonl \/ CallChunkMessages \/ IngestSessionFile \/ CallFormatContent

SpecSessions == InitSessions /\ [][NextSessions]_vars

----------------------------------------------------------------------------
(* Properties of the session parser *)

ParseRan == pc = "done" /\ caller = "parse_jsonl"

(* A well-formed record tagged message: an object of type message whose
   message field is a dict. *)
WellFormedMessage(line) ==
    line.kind = "object" /\ line.type = "message" /\ line.message.shape = "dict"

Malformed(line) ==
    \/ line.kind \in {"text", "value"}
    \/ line.kind = "object" /\ line.type = "message" /\ line.message.shape = "null"

Extracted(line) ==
    [role |-> line.message.role, content |-> line.message.content,
     timestamp |-> line.timestamp, id |-> line.id, sessionKey |-> line.sessionKey]

(* C3: every well-formed message record of the log is among the messages
   returned, whatever malformed lines come before it. *)
C3_MalformedLinesSkipped ==
    ParseRan =>
        \A i \in 1..Len(lines) :
            WellFormedMessage(lines[i]) =>
                \E j \in 1..Len(messages) : messages[j] = Extracted(lines[i])

(* The role, content, timestamp and id of the records tagged message, in
   file order. *)
RECURSIVE MessageRecords(_)
MessageRecords(ls) ==
    IF ls = <<>> THEN <<>>
    ELSE IF Head(ls).kind = "object" /\ Head(ls).type = "message"
         THEN <<[role |-> Head(ls).message.role, content |-> Head(ls).message.content,
                 timestamp |-> Head(ls).timestamp, id |-> Head(ls).id]>>
              \o MessageRecords(Tail(ls))
         ELSE MessageRecords(Tail(ls))

FourFields(ms) ==
    [j \in 1..Len(ms) |-> [role |-> ms[j].role, content |-> ms[j].content,
                           timestamp |-> ms[j].timestamp, id |-> ms[j].id]]

(* C10: the messages returned are exactly the records tagged message, in
   file order, each with its role, content, timestamp and id. *)
C10_ExactlyMessageRecords ==
    ParseRan => FourFields(messages) = MessageRecords(lines)

(* Where no line makes the read fail, C10's statement holds. *)
MessageRecordsWhenNoLineFails ==
    (ParseRan /\ ~ParseLoop(lines, Len(lines)).failed) =>
        FourFields(messages) = MessageRecords(lines)

----------------------------------------------------------------------------
(* Properties of the message chunker *)

ChunkMessagesRan == pc = "done" /\ caller = "chunk_messages"

(* Every message has a role to render: a string. *)
RolesAreStrings == \A j \in 1..Len(messages) : messages[j].role.t = "str"

(* Every message renders non-empty. *)
AllRenderNonEmpty ==
    /\ RolesAreStrings
    /\ \A j \in 1..Len(messages) : Strip(format_content(messages[j].content)) # <<>>

(* The window the claim gives the k-th start (k from 0): its first and
   last message, counted from 1. *)
ClaimedFirst(k) == k * (context_window - overlap) + 1
ClaimedLast(k) == Min(k * (context_window - overlap) + context_window, Len(messages))
ClaimedWindow(k) == SubSeq(messages, ClaimedFirst(k), ClaimedLast(k))
ClaimedText(k) == JoinWith(RenderParts(ClaimedWindow(k)).parts, Sep)

(* The starts strictly below the message count. *)
ClaimedStarts == {k \in 0..Len(messages) : k * (context_window - overlap) < Len(messages)}

(* A chunk is the claimed window of its chunk_index. *)
IsClaimedWindow(c) ==
    /\ c.metadata.chunk_index \in ClaimedStarts
    /\ c.metadata.message_count = ClaimedLast(c.metadata.chunk_index)
                                    - ClaimedFirst(c.metadata.chunk_index) + 1
    /\ c.text = ClaimedText(c.metadata.chunk_index)

(* The chunks are the claimed windows with a non-blank text, in order. *)
ChunksAreClaimedWindows ==
    /\ \A j \in 1..Len(chunks) : IsClaimedWindow(chunks[j])
    /\ \A j \in 1..(Len(chunks) - 1) :
          chunks[j].metadata.chunk_index < chunks[j + 1].metadata.chunk_index
    /\ \A k \in ClaimedStarts :
          Strip(ClaimedText(k)) # <<>> =>
              \E j \in 1..Len(chunks) : chunks[j].metadata.chunk_index = k

(* C4: for messages that all have a role to render, chunk_messages returns
   the windows starting at 0, s, 2s, ... below the message count, each cut
   at the end of the list; 45 messages that all render non-empty give, with
   window 20 and overlap 5, three chunks holding messages 0-19, 15-34 and
   30-44. *)
C4_WindowsAsClaimed ==
    (ChunkMessagesRan /\ RolesAreStrings) =>
        /\ raised = "none"
        /\ ChunksAreClaimedWindows
        /\ (/\ context_window = DefaultWindow /\ overlap = DefaultWindowOverlap
            /\ Len(messages) = 45 /\ AllRenderNonEmpty)
           => /\ Len(chunks) = 3
              /\ chunks[1].metadata.message_count = 20
              /\ chunks[2].metadata.message_count = 20
              /\ chunks[3].metadata.message_count = 15
              /\ chunks[1].text = JoinWith(RenderParts(SubSeq(messages, 1, 20)).parts, Sep)
              /\ chunks[2].text = JoinWith(RenderParts(SubSeq(messages, 16, 35)).parts, Sep)
              /\ chunks[3].text = JoinWith(RenderParts(SubSeq(messages, 31, 45)).parts, Sep)

(* Where chunk_messages returns, the windows are as C4 states them. *)
WindowsAsClaimedWhenReturned ==
    (ChunkMessagesRan /\ raised = "none") =>
        /\ ChunksAreClaimedWindows
        /\ (/\ context_window = DefaultWindow /\ overlap = DefaultWindowOverlap
            /\ Len(messages) = 45 /\ AllRenderNonEmpty)
           => /\ Len(chunks) = 3
              /\ chunks[1].text = JoinWith(RenderParts(SubSeq(messages, 1, 20)).parts, Sep)
              /\ chunks[2].text = JoinWith(RenderParts(SubSeq(messages, 16, 35)).parts, Sep)
              /\ chunks[3].text = JoinWith(RenderParts(SubSeq(messages, 31, 45)).parts, Sep)

(* The messages of a chunk's window, by position in the list. *)
WindowOf(c) ==
    ClaimedFirst(c.metadata.chunk_index)
        .. (ClaimedFirst(c.metadata.chunk_index) + c.metadata.message_count - 1)

(* Two chunks of windows at consecutive starts. *)
ConsecutiveWindows(a, b) ==
    chunks[b].metadata.chunk_index = chunks[a].metadata.chunk_index + 1

(* C5 as stated: two consecutive windows share exactly overlap messages. *)
C5_ShareExactlyOverlap ==
    ChunkMessagesRan =>
        \A a, b \in 1..Len(chunks) :
            ConsecutiveWindows(a, b) =>
                Cardinality(WindowOf(chunks[a]) \cap WindowOf(chunks[b])) = overlap

(* C5 as amended: the chunks are the windows at their starts; of two
   consecutive windows the later starts context_window - overlap messages
   after the earlier, so they share overlap messages when the earlier holds
   context_window messages, and otherwise, the earlier being cut at the
   end of the list, the later lies wholly inside it. *)
C5_ShareOverlapUnlessCut ==
    ChunkMessagesRan =>
        /\ \A j \in 1..Len(chunks) : IsClaimedWindow(chunks[j])
        /\ \A a, b \in 1..Len(chunks) :
              ConsecutiveWindows(a, b) =>
                  LET shared == WindowOf(chunks[a]) \cap WindowOf(chunks[b])
                  IN  /\ chunks[a].metadata.message_count = context_window
                            => Cardinality(shared) = overlap
                      /\ chunks[a].metadata.message_count < context_window
                            => /\ shared = WindowOf(chunks[b])
                               /\ Cardinality(shared) < overlap
                      /\ \A x \in shared :
                            /\ \A y \in WindowOf(chunks[a]) : y > x => y \in shared
                            /\ \A y \in WindowOf(chunks[b]) : y < x => y \in shared

C5_Witness ==
    /\ ChunkMessagesRan
    /\ \E a, b \in 1..Len(chunks) :
          /\ ConsecutiveWindows(a, b)
          /\ chunks[a].metadata.message_count = context_window
          /\ overlap > 0
    /\ \E a, b \in 1..Len(chunks) :
          /\ ConsecutiveWindows(a, b)
          /\ chunks[a].metadata.message_count < context_window

----------------------------------------------------------------------------
(* Properties of the rendering *)

FormatRan == pc = "done" /\ caller = "format_content"

(* The result text of a toolResult item: what is under its text key, else
   under its result key, else empty. *)
ResultText(item) ==
    IF item.text.t # "missing" THEN item.text.v
    ELSE IF item.result.t # "missing" THEN item.result.v
    ELSE <<>>

(* The content is a list of one toolResult item. *)
OneToolResult(c) == c.t = "list" /\ Len(c.v) = 1 /\ c.v[1].type = "toolResult"

(* What stands between "[Tool Result: " and "]" in a rendering. *)
RenderedResult(text) == SubSeq(text, Len(W_ToolResult) + 1, Len(text) - 1)

IsToolResultRendering(text) ==
    /\ Len(text) > Len(W_ToolResult)
    /\ SubSeq(text, 1, Len(W_ToolResult)) = W_ToolResult
    /\ text[Len(text)] = "]"

(* C12 as stated: a toolResult item is rendered as [Tool Result: r] with r
   never longer than 500 characters, and r the whole result text when that
   has at most 500 characters. *)
C12_ResultWithin500 ==
    (FormatRan /\ OneToolResult(fc_content)) =>
        /\ IsToolResultRendering(formatted)
        /\ Len(RenderedResult(formatted)) <= ToolResultChars
        /\ Len(ResultText(fc_content.v[1])) <= ToolResultChars
              => RenderedResult(formatted) = ResultText(fc_content.v[1])

(* The r of the rendering, as the code gives it: the trimmed result text
   when that has at most 500 characters, else its first 500 characters
   followed by "...". *)
ClaimedResult(item) ==
    LET trimmed == Strip(ResultText(item))
    IN  IF Len(trimmed) <= ToolResultChars THEN trimmed
        ELSE SubSeq(trimmed, 1, ToolResultChars) \o <<".", ".", ".">>

(* C12 as amended: r is the result text trimmed of surrounding whitespace,
   whole when that has at most 500 characters and otherwise cut to its
   first 500 characters with "..." appended, so r has at most 503
   characters. *)
C12_ResultCutWithEllipsis ==
    (FormatRan /\ OneToolResult(fc_content)) =>
        /\ IsToolResultRendering(formatted)
        /\ RenderedResult(formatted) = ClaimedResult(fc_content.v[1])
        /\ Len(RenderedResult(formatted)) <= ToolResultChars + 3

C12_Witness ==
    /\ FormatRan /\ OneToolResult(fc_content)
    /\ Len(Strip(ResultText(fc_content.v[1]))) > ToolResultChars
    /\ Len(RenderedResult(formatted)) = ToolResultChars + 3

(* What an item of a structured content contributes, as the rendering
   rules give it: a list of one text, or nothing. *)
ClaimedItem(item) ==
    IF item.type = "text"
    THEN <<IF item.text.t = "missing" THEN <<>> ELSE item.text.v>>
    ELSE IF item.type = "toolCall"
    THEN LET name == IF item.name.t = "missing" THEN W_unknown ELSE item.name.v
             args == IF item.arguments.t = "missing" THEN <<>> ELSE item.arguments.v
         IN  <<W_Tool \o name \o <<"(">>
               \o SubSeq(args, 1, Min(Len(args), ToolArgsChars)) \o <<")", "]">>>>
    ELSE IF item.type = "toolResult"
    THEN <<W_ToolResult \o ClaimedResult(item) \o <<"]">>>>
    ELSE <<>>

RECURSIVE ClaimedItems(_)
ClaimedItems(items) ==
    IF items = <<>> THEN <<>>
    ELSE ClaimedItem(Head(items)) \o ClaimedItems(Tail(items))

(* The formatted content: a string as it is, a list as the lines of its
   items, anything else by its str(). *)
ClaimedContent(c) ==
    IF c.t = "str" THEN c.v
    ELSE IF c.t = "list" THEN JoinWith(ClaimedItems(c.v), <<"\n">>)
    ELSE W_None

(* ROLE: formatted-content *)
ClaimedMessage(m) == Upper(m.role.v) \o <<":", " ">> \o ClaimedContent(m.content)

RendersNonBlank(m) == Strip(ClaimedContent(m.content)) # <<>>

(* The window of a chunk, from its chunk_index and message_count. *)
ChunkWindow(c) ==
    SubSeq(messages, ClaimedFirst(c.metadata.chunk_index),
           ClaimedFirst(c.metadata.chunk_index) + c.metadata.message_count - 1)

RECURSIVE ClaimedMessages(_)
ClaimedMessages(window) ==
    IF window = <<>> THEN <<>>
    ELSE <<ClaimedMessage(Head(window))>> \o ClaimedMessages(Tail(window))

(* C11 as stated: the text of a chunk is every message of its window
   rendered as ROLE: formatted-content, in order, joined by blank lines. *)
C11_EveryMessageRendered ==
    ChunkMessagesRan =>
        \A j \in 1..Len(chunks) :
            chunks[j].text = JoinWith(ClaimedMessages(ChunkWindow(chunks[j])), Sep)

(* C11 as amended: the text of a chunk is the messages of its window whose
   formatted content is not blank, each rendered as ROLE: formatted-content
   with the role upper-cased, in order, joined by blank lines; a message
   whose formatted content is blank is left out.  In a structured content
   text items are rendered verbatim, thinking items contribute nothing and a
   tool call is rendered as [Tool: name(args)] with the arguments cut to
   their first 100 characters. *)
C11_NonBlankMessagesRendered ==
    /\ ChunkMessagesRan =>
          \A j \in 1..Len(chunks) :
              chunks[j].text =
                  JoinWith(ClaimedMessages(SelectSeq(ChunkWindow(chunks[j]), RendersNonBlank)),
                           Sep)
    /\ FormatRan => formatted = ClaimedContent(fc_content)

(* A chunk of a window with a message left out and a message whose tool
   call has arguments longer than the prefix kept. *)
C11_Witness ==
    /\ ChunkMessagesRan
    /\ \E j \in 1..Len(chunks) :
          /\ \E m \in 1..Len(ChunkWindow(chunks[j])) :
                ~RendersNonBlank(ChunkWindow(chunks[j])[m])
          /\ \E m \in 1..Len(ChunkWindow(chunks[j])) :
                LET c == ChunkWindow(chunks[j])[m].content
                IN  /\ c.t = "list"
                    /\ \E i \in 1..Len(c.v) :
                          /\ c.v[i].type = "toolCall"
                          /\ Len(c.v[i].arguments.v) > ToolArgsChars
                    /\ \E i \in 1..Len(c.v) : c.v[i].type = "thinking"

----------------------------------------------------------------------------
(* The vector store: document IDs *)

IdTextChars == 200
BatchIdTextChars == 100

W_manual == <<"m", "a", "n", "u", "a", "l">>
W_zero == <<"0">>
Colon == <<":">>

(* hashlib.md5(s.encode()).hexdigest(): the digest of s, written as s
   behind a mark; two strings have the same digest only when they are the
   same string. *)
Md5(s) == <<"md5#">> \o s

(* metadata.get(key, default) *)
MetaGet(metadata, key, default) ==
    IF key \in DOMAIN metadata THEN metadata[key] ELSE default

(* str(metadata.get('chunk_index', '0')): the ingest paths store an int. *)
ChunkIndexStr(metadata) ==
    IF "chunk_index" \in DOMAIN metadata THEN Digits(metadata.chunk_index) ELSE W_zero

(* add_document's unique_str; the date defaults to the time of the call. *)
UniqueStr(text, metadata, clock) ==
    JoinWith(<<MetaGet(metadata, "type", W_unknown),
               MetaGet(metadata, "source", W_unknown),
               MetaGet(metadata, "date", Iso(clock)),
               ChunkIndexStr(metadata),
               Take(text, IdTextChars)>>, Colon)

(* The ID add_document gives the document: doc_id, or the digest. *)
DocumentId(text, metadata, doc_id, clock) ==
    IF doc_id = PyNone THEN Md5(UniqueStr(text, metadata, clock)) ELSE doc_id.v

(* The string of add_documents_batch with the whole text in it. *)
BatchUniqueStr_hashes_whole_text(doc) ==
    JoinWith(<<MetaGet(doc.metadata, "type", W_unknown),
               MetaGet(doc.metadata, "source", W_unknown),
               MetaGet(doc.metadata, "date", <<>>),
               ChunkIndexStr(doc.metadata),
               doc.text>>, Colon)

(* The string add_documents_batch hashes; the date defaults to ''. *)
BatchUniqueStr(doc) ==
    JoinWith(<<MetaGet(doc.metadata, "type", W_unknown),
               MetaGet(doc.metadata, "source", W_unknown),
               MetaGet(doc.metadata, "date", <<>>),
               ChunkIndexStr(doc.metadata),
               Take(doc.text, BatchIdTextChars)>>, Colon)

(* doc.get("id", digest) *)
BatchDocumentId(doc) ==
    IF "id" \in DOMAIN doc THEN doc.id ELSE Md5(BatchUniqueStr(doc))

(* The store's add of one record: a record with the same ID is replaced. *)
Upsert(coll, rec) == {d \in coll : d.id # rec.id} \cup {rec}

(* collection.add(documents, metadatas, ids), record by record. *)
RECURSIVE CollectionAdd(_, _)
CollectionAdd(coll, recs) ==
    IF recs = <<>> THEN coll
    ELSE CollectionAdd(Upsert(coll, Head(recs)), Tail(recs))

(* The pass with the IDs of the slice returned in place of those before. *)
BatchPass_keeps_last_slice_ids(st, documents, i, batch_size) ==
    LET batch == SubSeq(documents, i + 1, Min(i + batch_size, Len(documents)))
        ids == [j \in 1..Len(batch) |-> BatchDocumentId(batch[j])]
        recs == [j \in 1..Len(batch) |->
                    [id |-> ids[j], text |-> batch[j].text,
                     metadata |-> batch[j].metadata]]
    IN  [collection |-> CollectionAdd(st.collection, recs),
         all_ids |-> ids,
         sent |-> Append(st.sent, [op |-> "add", ids |-> ids])]

(* One pass of add_documents_batch's loop: the slice starting at i. *)
BatchPass(st, documents, i, batch_size) ==
    LET batch == SubSeq(documents, i + 1, Min(i + batch_size, Len(documents)))
        ids == [j \in 1..Len(batch) |-> BatchDocumentId(batch[j])]
        recs == [j \in 1..Len(batch) |->
                    [id |-> ids[j], text |-> batch[j].text,
                     metadata |-> batch[j].metadata]]
    IN  [collection |-> CollectionAdd(st.collection, recs),
         all_ids |-> st.all_ids \o ids,
         sent |-> Append(st.sent, [op |-> "add", ids |-> ids])]

(* The loop's state after its first k passes. *)
RECURSIVE BatchLoop(_, _, _, _)
BatchLoop(coll, documents, k, batch_size) ==
    IF k = 0 THEN [collection |-> coll, all_ids |-> <<>>, sent |-> <<>>]
    ELSE BatchPass(BatchLoop(coll, documents, k - 1, batch_size), documents,
                   (k - 1) * batch_size, batch_size)

(* add_documents_batch: the collection afterwards, the IDs returned and the
   calls of collection.add made. *)
add_documents_batch(coll, documents, batch_size) ==
    BatchLoop(coll, documents,
              (Len(documents) + batch_size - 1) \div batch_size, batch_size)

(* add_manual_document's metadata *)
ManualMetadata(doc_type, source, clock) ==
    [type |-> doc_type, source |-> source, added_at |-> Iso(clock)]

(* The texts stored: a run of "a" that fills no or both ID prefixes, then
   one more character. *)
StoreTexts == {Pad(k) \o <<x>> : k \in {0, IdTextChars}, x \in {"b", "c"}}

(* Documents as the ingest paths build them: workspace chunks of the short
   texts, skill chunks of the long ones, a manual document, a session
   chunk. *)
SessionMsgKinds == {k \in MsgKinds : k.role /\ k.text /\ k.ts /\ k.id /\ ~k.key}
StoreDocs ==
    {WorkspaceDocs(t, <<t>>, 0)[1] : t \in {t \in StoreTexts : Len(t) <= IdTextChars}}
    \cup {SkillDocs(<<t>>, 0)[1] : t \in {t \in StoreTexts : Len(t) > IdTextChars}}
    \cup {[text |-> W_hi, metadata |-> ManualMetadata(W_manual, W_file, 0)]}
    \cup {chunk_messages(<<Msg(1, k)>>, DefaultWindow, DefaultWindowOverlap, 0).chunks[1] :
             k \in SessionMsgKinds}

GivenId == <<"i", "d">>
DocIdArgs == {PyNone, PyStr(GivenId)}

(* The documents of a batch: each with or without an id of its own. *)
BatchDocs ==
    StoreDocs \cup {[text |-> d.text, metadata |-> d.metadata, id |-> GivenId] : d \in StoreDocs}
BatchArgs(n) == [1..n -> BatchDocs]

(* What a call returned for one document. *)
Returned(op, text, metadata, supplied, clock, id) ==
    [op |-> op, text |-> text, metadata |-> metadata, supplied |-> supplied,
     at |-> clock, id |-> id]

InitStore ==
    /\ pc = "open"
    /\ caller = "store"
    /\ collection = {} /\ returned = {}
    /\ call = NoCall /\ outcome = PyNone /\ store_calls = <<>>
    /\ now = 0
    /\ chunks = <<>> /\ handed = <<>> /\ overlap = 0
    /\ content = <<>> /\ max_chars = 0
    /\ lines = <<>> /\ messages = <<>> /\ context_window = 0 /\ raised = "none"
    /\ fc_content = PyNone /\ formatted = <<>>

(* Time passes between two calls. *)
Tick ==
    /\ pc = "open" /\ now < MaxClock
    /\ now' = now + 1
    /\ UNCHANGED <<pc, caller, overlap, chunks, handed, docVars, sessionVars, storeVars, callVars>>

(* RAGSystem.add_document *)
AddDocument ==
    /\ pc = "open" /\ Cardinality(returned) < MaxDocs
    /\ \E doc \in StoreDocs, doc_id \in DocIdArgs :
          LET id == DocumentId(doc.text, doc.metadata, doc_id, now)
          IN  /\ collection' = CollectionAdd(collection,
                    <<[id |-> id, text |-> doc.text, metadata |-> doc.metadata]>>)
              /\ returned' = returned \cup
                    {Returned("add_document", doc.text, doc.metadata, doc_id, now, id)}
    /\ UNCHANGED <<pc, caller, overlap, chunks, handed, now, docVars, sessionVars, callVars>>

(* add_manual_document: metadata stamped with the time of the call, then
   add_document. *)
AddManualDocument ==
    /\ pc = "open" /\ Cardinality(returned) < MaxDocs
    /\ \E text \in {W_hi} :
          LET metadata == ManualMetadata(W_manual, W_file, now)
              id == DocumentId(text, metadata, PyNone, now)
          IN  /\ collection' = CollectionAdd(collection,
                    <<[id |-> id, text |-> text, metadata |-> metadata]>>)
              /\ returned' = returned \cup
                    {Returned("add_document", text, metadata, PyNone, now, id)}
    /\ UNCHANGED <<pc, caller, overlap, chunks, handed, now, docVars, sessionVars, callVars>>

(* RAGSystem.add_documents_batch *)
AddDocumentsBatch ==
    /\ pc = "open"
    /\ \E n \in 1..Min(MaxBatch, MaxDocs - Cardinality(returned)) :
       \E documents \in BatchArgs(n), batch_size \in 1..MaxBatch :
          LET r == add_documents_batch(collection, documents, batch_size)
          IN  /\ collection' = r.collection
              /\ returned' = returned \cup
                    {Returned("add_documents_batch", documents[j].text,
                              documents[j].metadata,
                              IF "id" \in DOMAIN documents[j]
                              THEN PyStr(documents[j].id) ELSE PyNone,
                              now, r.all_ids[j]) : j \in 1..Len(documents)}
    /\ UNCHANGED <<pc, caller, overlap, chunks, handed, now, docVars, sessionVars, callVars>>

NextStore == Tick \/ AddDocument \/ AddManualDocument \/ AddDocumentsBatch

SpecStore == InitStore /\ [][NextStore]_vars

----------------------------------------------------------------------------
(* Properties of the document IDs *)

(* Two returns of one operation for the same text and the same metadata
   mapping, neither with an id supplied. *)
SameDocumentAgain(a, b) ==
    /\ a.op = b.op
    /\ a.supplied = PyNone /\ b.supplied = PyNone
    /\ a.text = b.text
    /\ a.metadata = b.metadata

(* C1: add_document and add_documents_batch, called with no id for the same
   text and the same metadata mapping at two different times, return the
   same generated ID. *)
C1_SameIdOnReingest ==
    \A a, b \in returned : SameDocumentAgain(a, b) => a.id = b.id

(* The same holds of add_documents_batch, and of add_document for metadata
   that carries a date. *)
SameIdWhereNoClockIsRead ==
    \A a, b \in returned :
        (/\ SameDocumentAgain(a, b)
         /\ a.op = "add_documents_batch" \/ "date" \in DOMAIN a.metadata)
            => a.id = b.id

(* Two returns of one operation for the same metadata mapping, neither
   with an id supplied. *)
SameMetadataNoId(a, b) ==
    /\ a.op = b.op
    /\ a.supplied = PyNone /\ b.supplied = PyNone
    /\ a.metadata = b.metadata

(* C13 as stated: with the metadata held fixed and no id supplied, two
   different texts never get the same generated ID. *)
C13_TextChangeChangesId ==
    \A a, b \in returned :
        (SameMetadataNoId(a, b) /\ a.text # b.text) => a.id # b.id

(* How much of the text an operation hashes. *)
HashedChars(op) == IF op = "add_document" THEN IdTextChars ELSE BatchIdTextChars
HashedPrefix(r) == SubSeq(r.text, 1, Min(Len(r.text), HashedChars(r.op)))

(* The call read no clock for the ID, or both calls read the same time. *)
SameDateHashed(a, b) ==
    \/ a.op = "add_documents_batch"
    \/ "date" \in DOMAIN a.metadata
    \/ a.at = b.at

(* C13 as amended: with the metadata held fixed and no id supplied, two
   texts that differ within the hashed prefix (the first 200 characters in
   add_document, the first 100 in add_documents_batch) never get the same
   generated ID; two texts that agree on that prefix get the same ID (in
   add_document without a date in the metadata: when added at the same
   time). *)
C13_PrefixChangeChangesId ==
    \A a, b \in returned :
        SameMetadataNoId(a, b) =>
            /\ HashedPrefix(a) # HashedPrefix(b) => a.id # b.id
            /\ (HashedPrefix(a) = HashedPrefix(b) /\ SameDateHashed(a, b)) => a.id = b.id

(* Two texts that differ only after the hashed prefix were added in a
   batch and got one ID. *)
C13_Witness ==
    \E a, b \in returned :
        /\ SameMetadataNoId(a, b)
        /\ a.op = "add_documents_batch"
        /\ a.text # b.text
        /\ Len(a.text) > IdTextChars
        /\ a.id = b.id

----------------------------------------------------------------------------
(* Single calls of the store facade, the query scripts and the management
   commands, each on a collection that the add operations have filled *)

(* The store's metadata filter: a record matches when it has every key of
   the filter with the filter's value. *)
Matches(rec, where) ==
    \A k \in DOMAIN where : k \in DOMAIN rec.metadata /\ rec.metadata[k] = where[k]

(* collection.get(where=...) *)
CollectionGet(coll, where) == {rec \in coll : Matches(rec, where)}

(* collection.delete(ids=...) *)
CollectionDelete(coll, ids) == {rec \in coll : rec.id \notin ids}

Ids(recs) == {rec.id : rec \in recs}

(* delete_by_filter with the count taken after the deletion. *)
delete_by_filter_counts_afterwards(coll, filter_dict) ==
    LET results == CollectionGet(coll, filter_dict)
        after == CollectionDelete(coll, Ids(results))
    IN  [collection |-> after,
         count |-> Cardinality(CollectionGet(after, filter_dict)),
         sent |-> <<[op |-> "get", where |-> filter_dict]>>]

(* RAGSystem.delete_by_filter: the collection afterwards, the count
   returned and the calls made to the store. *)
delete_by_filter(coll, filter_dict) ==
    LET results == CollectionGet(coll, filter_dict)
    IN  IF Ids(results) = {}
        THEN [collection |-> coll, count |-> 0,
              sent |-> <<[op |-> "get", where |-> filter_dict]>>]
        ELSE [collection |-> CollectionDelete(coll, Ids(results)),
              count |-> Cardinality(Ids(results)),
              sent |-> <<[op |-> "get", where |-> filter_dict],
                         [op |-> "delete", ids |-> Ids(results)]>>]

(* The metadata filters: by a type, by a source, or empty. *)
NoFilter == [k \in {} |-> <<>>]
FilterTypes == {W_workspace, W_skill, W_session, W_manual, W_unknown}
Filters ==
    {[type |-> t] : t \in FilterTypes}
    \cup {[source |-> src] : src \in {W_file, W_skill_source}}
    \cup {NoFilter}

(* A filters argument: None, or a dict. *)
PyDict(d) == [t |-> "dict", v |-> d]

(* The where argument as the store reads it: None filters nothing. *)
Where(filters) == IF filters.t = "dict" THEN filters.v ELSE NoFilter

(* The orders in which the store may rank up to n of the records. *)
RECURSIVE Rankings(_, _)
Rankings(recs, n) ==
    IF n = 0 \/ recs = {} THEN {<<>>}
    ELSE UNION {{<<rec>> \o rest : rest \in Rankings(recs \ {rec}, n - 1)} : rec \in recs}

(* collection.query(query_texts, n_results, where): the store fails, or
   answers with up to n_results of the matching records in its rank order. *)
StoreError == [t |-> "error", v |-> <<>>]
CollectionQuery(coll, n_results, filters) ==
    {StoreError}
    \cup {[t |-> "ok", v |-> ranked] :
            ranked \in Rankings(CollectionGet(coll, Where(filters)), n_results)}

(* An exception leaving the called function. *)
Raised == [t |-> "raised", v |-> <<>>]

(* The score with the ranks counted from one. *)
Score_counts_ranks_from_one(i, n) == [num |-> n - (i + 1), den |-> n]

(* 1.0 - (i / n), as the fraction (n - i) / n. *)
Score(i, n) == [num |-> n - i, den |-> n]

(* RAGSystem.search on the store's answer: the shaped results, or the
   store's error going on to the caller. *)
RAGSystem_search(answer) ==
    IF answer.t = "error" THEN Raised
    ELSE PyList([k \in 1..Len(answer.v) |->
                    [id |-> answer.v[k].id,
                     text |-> answer.v[k].text,
                     metadata |-> answer.v[k].metadata,
                     score |-> Score(k - 1, Len(answer.v))]])

(* The record of one collection.query call. *)
QueryCall(query, n_results, filters, answer) ==
    [op |-> "query", query_texts |-> <<query>>, n_results |-> n_results,
     where |-> filters, answer |-> answer]

(* The filters arguments of a search. *)
SearchFilters ==
    {PyNone} \cup {PyDict([type |-> ty]) : ty \in FilterTypes}
             \cup {PyDict([source |-> W_file])}

(* The marks the query scripts print: one character each. *)
FormatResultChars == 1000
SearchContextChars == 600
FormatForAiChars == 700
AgentContextChars == 800
MinQueryChars == 3
IndexedDateChars == 10
RuleChars == 80
W_memory == <<"m", "e", "m", "o", "r", "y">>
W_boom == <<"b", "o", "o", "m">>
W_question == <<"?">>

(* text[:budget] + "..." with one character more kept. *)
Truncate_keeps_one_more(text, budget) ==
    IF Len(text) > budget THEN Take(text, budget + 1) \o W_dots ELSE text

(* if len(text) > budget: text = text[:budget] + "..." *)
Truncate(text, budget) ==
    IF Len(text) > budget THEN Take(text, budget) \o W_dots ELSE text

(* The branch of the header chain a type takes in format_result. *)
FormatResultKind(doc_type) ==
    IF doc_type = W_session THEN "session"
    ELSE IF doc_type = W_workspace THEN "workspace"
    ELSE IF doc_type = W_skill THEN "skill"
    ELSE IF doc_type = W_memory THEN "memory"
    ELSE "else"

(* The branch a type takes in the other three formatters. *)
HeaderKind(doc_type) ==
    IF doc_type = W_session THEN "session"
    ELSE IF doc_type = W_workspace THEN "workspace"
    ELSE IF doc_type = W_skill THEN "skill"
    ELSE "else"

(* format_result's header of each branch. *)
FormatResultHeader(kind, metadata) ==
    LET doc_type == MetaGet(metadata, "type", W_unknown)
        source == MetaGet(metadata, "source", W_question)
    IN  IF kind = "session"
        THEN <<"\n", "<page>", " ", "S", "e", "s", "s", "i", "o", "n", " ">> \o source \o <<" ", "(", "c", "h", "u", "n", "k", " ">>
             \o (IF "chunk_index" \in DOMAIN metadata
                 THEN Digits(metadata.chunk_index) ELSE W_question)
             \o <<")">>
        ELSE IF kind = "workspace" THEN <<"\n", "<folder>", " ">> \o source
        ELSE IF kind = "skill"
        THEN <<"\n", "<scroll>", " ", "S", "k", "i", "l", "l", ":", " ">> \o MetaGet(metadata, "skill_name", source)
        ELSE IF kind = "memory" THEN <<"\n", "<brain>", " ", "M", "e", "m", "o", "r", "y", ":", " ">> \o source
        ELSE <<"\n", "<diamond>", " ">> \o doc_type \o <<":", " ">> \o source

(* format_result's return value for a header and a body. *)
FormatResultText(header, metadata, text) ==
    LET indexed ==
            IF "ingested_at" \in DOMAIN metadata
            THEN <<<<"i", "n", "d", "e", "x", "e", "d", " ">> \o Take(metadata.ingested_at, IndexedDateChars)>>
            ELSE <<>>
        chunk ==
            IF "chunk_index" \in DOMAIN metadata /\ "total_chunks" \in DOMAIN metadata
            THEN <<<<"c", "h", "u", "n", "k", " ">> \o Digits(metadata.chunk_index + 1) \o <<"/">>
                   \o Digits(metadata.total_chunks)>>
            ELSE <<>>
        info == indexed \o chunk
        info_str == IF info # <<>> THEN <<" ", "(">> \o JoinWith(info, <<",", " ">>) \o <<")">>
                    ELSE <<>>
    IN  header \o info_str \o <<"\n">> \o text

(* rag_query.format_result *)
format_result(result, index) ==
    LET metadata == result.metadata
        doc_type == MetaGet(metadata, "type", W_unknown)
    IN  FormatResultText(FormatResultHeader(FormatResultKind(doc_type), metadata),
                         metadata, Truncate(result.text, FormatResultChars))

(* f"{filters}" for the one-key dicts the command line builds. *)
DictRepr(d) ==
    LET key == CHOOSE k \in DOMAIN d : TRUE
    IN  <<"{", "'">> \o (IF key = "type" THEN <<"t", "y", "p", "e">> ELSE <<"s", "o", "u", "r", "c", "e">>) \o <<"'", ":", " ", "'">>
        \o d[key] \o <<"'", "}">>

Rule == [i \in 1..RuleChars |-> "="]

(* What a verbose rag_query.search prints, line by line, for the results
   and their formatted texts. *)
SearchPrinted(query, filters, results, texts) ==
    <<<<"<magnifier>", " ", "Q", "u", "e", "r", "y", ":", " ">> \o query>>
    \o (IF filters.t = "dict" /\ DOMAIN filters.v # {}
        THEN <<<<"<target>", " ", "F", "i", "l", "t", "e", "r", "s", ":", " ">> \o DictRepr(filters.v)>> ELSE <<>>)
    \o <<<<>>>>
    \o (IF results.t = "raised" THEN <<>>
        ELSE IF results.v = <<>> THEN <<<<"<cross>", " ", "N", "o", " ", "r", "e", "s", "u", "l", "t", "s", " ", "f", "o", "u", "n", "d">>>>
        ELSE <<<<"<tick>", " ", "F", "o", "u", "n", "d", " ">> \o Digits(Len(results.v)) \o <<" ", "r", "e", "s", "u", "l", "t", "s", "\n">>, Rule>>
             \o [k \in 1..(2 * Len(texts)) |->
                    IF k % 2 = 1 THEN texts[(k + 1) \div 2] ELSE Rule])

(* rag_query.search on the store's answer: what it returns and what it
   prints. *)
rag_query_search(query, filters, verbose, answer) ==
    LET results == RAGSystem_search(answer)
        texts == IF results.t = "raised" THEN <<>>
                 ELSE [i \in 1..Len(results.v) |-> format_result(results.v[i], i)]
    IN  [t |-> results.t, v |-> results.v,
         printed |-> IF verbose THEN SearchPrinted(query, filters, results, texts)
                     ELSE <<>>]

(* search_context's header of each branch for the i-th result. *)
SearchContextHeader(kind, meta, i) ==
    LET source == MetaGet(meta, "source", W_unknown)
    IN  IF kind = "session" THEN <<"<page>", " ", "S", "e", "s", "s", "i", "o", "n", " ", "r", "e", "f", "e", "r", "e", "n", "c", "e", " ">> \o Digits(i)
        ELSE IF kind = "workspace" THEN <<"<folder>", " ", "C", "o", "d", "e", "/", "D", "o", "c", "s", ":", " ">> \o source
        ELSE IF kind = "skill" THEN <<"<scroll>", " ", "S", "k", "i", "l", "l", ":", " ">> \o source
        ELSE <<"R", "e", "f", "e", "r", "e", "n", "c", "e", " ">> \o Digits(i)

(* search_context's string for the headers and bodies of the results. *)
SearchContextText(headers, bodies) ==
    JoinWith(<<<<"<magnifier>", " ", "F", "o", "u", "n", "d", " ">> \o Digits(Len(bodies)) \o <<" ", "r", "e", "l", "e", "v", "a", "n", "t", " ", "i", "t", "e", "m", "s", ":", "\n">>>>
             \o [i \in 1..Len(bodies) |->
                    <<"\n">> \o headers[i] \o <<"\n">> \o bodies[i] \o <<"\n">>],
             <<"\n">>)

(* rag_query_quick.search_context on the store's answer *)
search_context(answer) ==
    LET results == RAGSystem_search(answer)
        kind(i) == HeaderKind(MetaGet(results.v[i].metadata, "type", W_unknown))
    IN  IF results.t = "raised" THEN PyStr(<<"<cross>", " ", "R", "A", "G", " ", "e", "r", "r", "o", "r", ":", " ">> \o W_boom)
        ELSE IF results.v = <<>>
        THEN PyStr(<<"N", "o", " ", "r", "e", "l", "e", "v", "a", "n", "t", " ", "c", "o", "n", "t", "e", "x", "t", " ", "f", "o", "u", "n", "d", " ", "i", "n", " ", "k", "n", "o", "w", "l", "e", "d", "g", "e", " ", "b", "a", "s", "e", ".">>)
        ELSE PyStr(SearchContextText(
                [i \in 1..Len(results.v) |->
                    SearchContextHeader(kind(i), results.v[i].metadata, i)],
                [i \in 1..Len(results.v) |->
                    Truncate(results.v[i].text, SearchContextChars)]))

(* rag_query_wrapper.search_knowledge on the store's answer *)
search_knowledge(query, answer) ==
    LET results == RAGSystem_search(answer)
    IN  IF results.t = "raised"
        THEN [query |-> query, count |-> 0, items |-> <<>>, error |-> W_boom]
        ELSE [query |-> query, count |-> Len(results.v),
              items |-> [i \in 1..Len(results.v) |->
                  LET meta == results.v[i].metadata
                  IN  [text |-> results.v[i].text,
                       type |-> MetaGet(meta, "type", W_unknown),
                       source |-> MetaGet(meta, "source", W_unknown),
                       chunk_index |-> MetaGet(meta, "chunk_index", 0),
                       date |-> MetaGet(meta, "date", <<>>)]]]

(* format_for_ai's header of each branch. *)
FormatForAiHeader(kind, item) ==
    IF kind = "session" THEN <<"<page>", " ", "P", "a", "s", "t", " ", "C", "o", "n", "v", "e", "r", "s", "a", "t", "i", "o", "n", " ", "(">> \o item.source \o <<")">>
    ELSE IF kind = "workspace"
    THEN <<"<folder>", " ", "C", "o", "d", "e", "/", "D", "o", "c", "u", "m", "e", "n", "t", "a", "t", "i", "o", "n", " ", "(">> \o item.source \o <<")">>
    ELSE IF kind = "skill" THEN <<"<scroll>", " ", "S", "k", "i", "l", "l", " ", "G", "u", "i", "d", "e", " ", "(">> \o item.source \o <<")">>
    ELSE <<"<diamond>", " ", "R", "e", "f", "e", "r", "e", "n", "c", "e", " ", "(">> \o item.type \o <<")">>

(* format_for_ai's string for the headers and bodies of the items. *)
FormatForAiText(count, headers, bodies) ==
    JoinWith(<<<<"<books>", " ", "F", "o", "u", "n", "d", " ">> \o Digits(count)
               \o <<" ", "r", "e", "l", "e", "v", "a", "n", "t", " ", "i", "t", "e", "m", "s", " ", "f", "r", "o", "m", " ", "k", "n", "o", "w", "l", "e", "d", "g", "e", " ", "b", "a", "s", "e", ":", "\n">>>>
             \o [i \in 1..Len(bodies) |->
                    <<"\n">> \o headers[i] \o <<"\n">> \o bodies[i] \o <<"\n">>],
             <<"\n">>)

(* rag_query_wrapper.format_for_ai *)
format_for_ai(results) ==
    IF results.count = 0 THEN <<>>
    ELSE FormatForAiText(results.count,
            [i \in 1..Len(results.items) |->
                FormatForAiHeader(HeaderKind(results.items[i].type), results.items[i])],
            [i \in 1..Len(results.items) |->
                Truncate(results.items[i].text, FormatForAiChars)])

(* rag_context.get_context on the store's answer *)
get_context(query, answer) ==
    LET results == search_knowledge(query, answer)
    IN  IF results.count > 0 THEN PyStr(format_for_ai(results)) ELSE PyStr(<<>>)

(* search_relevant_context's header of each branch for the i-th result. *)
AgentContextHeader(kind, metadata, i) ==
    LET source == MetaGet(metadata, "source", W_unknown)
    IN  IF kind = "session" THEN <<"[", "S", "e", "s", "s", "i", "o", "n", " ", "R", "e", "f", "e", "r", "e", "n", "c", "e", " ">> \o Digits(i) \o <<"]">>
        ELSE IF kind = "workspace"
        THEN <<"[", "C", "o", "d", "e", "/", "D", "o", "c", "s", " ">> \o Digits(i) \o <<":", " ">> \o source \o <<"]">>
        ELSE IF kind = "skill"
        THEN <<"[", "S", "k", "i", "l", "l", " ", "R", "e", "f", "e", "r", "e", "n", "c", "e", " ">> \o Digits(i) \o <<":", " ">> \o source \o <<"]">>
        ELSE <<"[", "R", "e", "f", "e", "r", "e", "n", "c", "e", " ">> \o Digits(i) \o <<"]">>

(* search_relevant_context's string for the headers and bodies. *)
AgentContextText(headers, bodies) ==
    JoinWith(<<<<"F", "o", "u", "n", "d", " ">> \o Digits(Len(bodies)) \o <<" ", "r", "e", "l", "e", "v", "a", "n", "t", " ", "c", "o", "n", "t", "e", "x", "t", " ", "i", "t", "e", "m", "s", ":", "\n">>>>
             \o [i \in 1..Len(bodies) |-> headers[i] \o <<"\n">> \o bodies[i] \o <<"\n">>],
             <<"\n">>)

(* rag_agent.search_relevant_context on the store's answer, for a query
   of MinQueryChars characters or more. *)
search_relevant_context(answer) ==
    LET results == RAGSystem_search(answer)
        kind(i) == HeaderKind(MetaGet(results.v[i].metadata, "type", W_unknown))
    IN  IF results.t = "raised" \/ results.v = <<>> THEN PyStr(<<>>)
        ELSE PyStr(AgentContextText(
                [i \in 1..Len(results.v) |->
                    AgentContextHeader(kind(i), results.v[i].metadata, i)],
                [i \in 1..Len(results.v) |->
                    Truncate(results.v[i].text, AgentContextChars)]))

(* The character budget of the entry point's formatter. *)
BudgetOf(entry) ==
    IF entry = "rag_query.search" THEN FormatResultChars
    ELSE IF entry = "search_context" THEN SearchContextChars
    ELSE IF entry = "search_relevant_context" THEN AgentContextChars
    ELSE FormatForAiChars

(* The documents the query scripts find: one of each type with a short
   text, and manual and session documents with texts that fill the budget,
   with and without one more character. *)
QueryDocs(budget) ==
    LET session_metadata ==
            chunk_messages(<<Msg(1, CHOOSE k \in SessionMsgKinds : TRUE)>>,
                           DefaultWindow, DefaultWindowOverlap, 0).chunks[1].metadata
        long == {Pad(budget), Pad(budget) \o <<"b">>}
    IN  {WorkspaceDocs(W_hi, <<W_hi>>, 0)[1], SkillDocs(<<W_hi>>, 0)[1],
         [text |-> W_hi, metadata |-> ManualMetadata(W_memory, W_file, 0)]}
        \cup {[text |-> t, metadata |-> ManualMetadata(W_manual, W_file, 0)] :
                 t \in {W_hi} \cup long}
        \cup {[text |-> t, metadata |-> session_metadata] : t \in {W_hi} \cup long}

QueryRecs(budget) ==
    {[id |-> DocumentId(d.text, d.metadata, PyNone, 0), text |-> d.text,
      metadata |-> d.metadata] : d \in QueryDocs(budget)}

(* The collections of up to MaxStored of them, each ID held once. *)
QueryCollections(budget) ==
    LET recs == QueryRecs(budget)
        picked == {{f[i] : i \in 1..MaxStored} : f \in [1..MaxStored -> recs]}
    IN  {{}} \cup {c \in picked : \A a, b \in c : a.id = b.id => a = b}

QueryEntryPoints ==
    {"rag_query.search", "search_context", "search_knowledge", "get_context",
     "search_relevant_context"}

Queries == {W_hi, W_skill}

QueryCalls(entry) ==
    IF entry = "rag_query.search"
    THEN {[op |-> entry, query |-> W_skill, n_results |-> n, filters |-> f, verbose |-> v] :
             n \in 1..MaxResults, f \in {PyNone, PyDict([type |-> W_manual])},
             v \in BOOLEAN}
    ELSE IF entry = "search_relevant_context"
    THEN {[op |-> entry, query |-> q, n_results |-> n, filters |-> PyNone] :
             q \in Queries, n \in 1..MaxResults}
    ELSE {[op |-> entry, query |-> W_skill, n_results |-> n, filters |-> PyNone] :
             n \in 1..MaxResults}

(* collection.delete(where=...) *)
CollectionDeleteWhere(coll, where) == {rec \in coll : ~Matches(rec, where)}

LowerChar(c) ==
    IF \E k \in 1..26 : UpperCase[k] = c
    THEN LowerCase[CHOOSE k \in 1..26 : UpperCase[k] = c]
    ELSE c

(* s.lower() *)
Lower(s) == [k \in 1..Len(s) |-> LowerChar(s[k])]

W_yes == <<"y", "e", "s">>
W_y == <<"y">>

(* What the user may type at a prompt. *)
Answers ==
    {W_yes, W_y, <<"n", "o">>, <<"n">>, <<>>, <<" ", "Y", "E", "S", " ">>, <<"Y">>, <<"y", "e", "s", "!">>, <<"o", "k">>}

(* The delete commands going on at any answer but no. *)
ConfirmsDelete_unless_no(typed) == Lower(Strip(typed)) # <<"n", "o">>

(* confirm = input(...).strip().lower(); confirm in ['yes', 'y'] *)
ConfirmsDelete(typed) == Lower(Strip(typed)) \in {W_yes, W_y}

(* confirm = input(...).strip().lower(); confirm == 'yes' *)
ConfirmsReset(typed) == Lower(Strip(typed)) = W_yes

(* The filter of a delete command. *)
ManageFilter(entry, c) ==
    IF entry = "delete_by_source" THEN [source |-> c.source] ELSE [type |-> c.doc_type]

ManageCommands == {"delete_by_source", "delete_by_type", "reset_collection"}

ManageCalls(entry) ==
    IF entry = "delete_by_source"
    THEN {[op |-> entry, source |-> src] : src \in {W_file, W_skill_source, W_unknown}}
    ELSE IF entry = "delete_by_type"
    THEN {[op |-> entry, doc_type |-> ty] : ty \in FilterTypes}
    ELSE {[op |-> entry]}

(* s.startswith(prefix) *)
StartsWith(s, prefix) ==
    Len(s) >= Len(prefix) /\ SubSeq(s, 1, Len(prefix)) = prefix

(* s.split(maxsplit=1) of a stripped string: the characters before the
   first run of blanks and, when there is one, the rest after it. *)
SplitOnce(s) ==
    LET blanks == {i \in 1..Len(s) : s[i] \in Whitespace}
    IN  IF blanks = {} THEN IF s = <<>> THEN <<>> ELSE <<s>>
        ELSE LET first == CHOOSE i \in blanks : \A j \in blanks : i <= j
             IN  <<SubSeq(s, 1, first - 1), LStrip(SubSeq(s, first, Len(s)))>>

(* s.replace(old, ""): every occurrence of old, found left to right, is
   taken out. *)
RECURSIVE Remove(_, _)
Remove(s, old) ==
    IF s = <<>> THEN <<>>
    ELSE IF StartsWith(s, old) THEN Remove(SubSeq(s, Len(old) + 1, Len(s)), old)
    ELSE <<Head(s)>> \o Remove(Tail(s), old)

InteractiveResults == 10
StatsSample == 10
W_type_colon == <<"t", "y", "p", "e", ":">>
QuitWords == {<<"q", "u", "i", "t">>, <<"e", "x", "i", "t">>, <<"q">>}

(* The type of an interactive query as the leading "type:" cut off the
   first word. *)
InteractiveType_cuts_prefix(first) == SubSeq(first, Len(W_type_colon) + 1, Len(first))

(* parts[0].replace("type:", "") *)
InteractiveType(first) == Remove(first, W_type_colon)

(* The query and the filters interactive_search makes of a line typed. *)
InteractiveParse(query) ==
    LET parts == SplitOnce(query)
    IN  IF StartsWith(query, W_type_colon) /\ Len(parts) > 1
        THEN [query |-> parts[2], filters |-> PyDict([type |-> InteractiveType(parts[1])])]
        ELSE [query |-> query, filters |-> PyNone]

(* What interactive_search prints before its first prompt. *)
InteractiveBanner(coll) ==
    <<<<"<chart>", " ", "C", "o", "l", "l", "e", "c", "t", "i", "o", "n", ":", " ", "o", "p", "e", "n", "c", "l", "a", "w", "_", "k", "n", "o", "w", "l", "e", "d", "g", "e">>,
      <<" ", " ", " ", "T", "o", "t", "a", "l", " ", "d", "o", "c", "u", "m", "e", "n", "t", "s", ":", " ">> \o Digits(Cardinality(coll))>>

(* The store calls of get_stats. *)
StatsCalls == <<[op |-> "count"], [op |-> "get", limit |-> StatsSample]>>

(* One line typed into interactive_search, by the store's answer when the
   line is searched for: what is printed for it. *)
InteractiveRound(typed, answer) ==
    LET query == Strip(typed)
        results == RAGSystem_search(answer)
    IN  IF query = <<>> THEN <<>>
        ELSE IF Lower(query) \in QuitWords THEN <<<<"\n", "<wave>", " ", "G", "o", "o", "d", "b", "y", "e", "!">>>>
        ELSE IF results.t = "raised" THEN <<<<"<cross>", " ", "E", "r", "r", "o", "r", ":", " ">> \o W_boom>>
        ELSE IF results.v = <<>> THEN <<<<"<cross>", " ", "N", "o", " ", "r", "e", "s", "u", "l", "t", "s", " ", "f", "o", "u", "n", "d">>>>
        ELSE <<<<"\n", "<tick>", " ">> \o Digits(Len(results.v)) \o <<" ", "r", "e", "s", "u", "l", "t", "s", ":">>, Rule>>
             \o [k \in 1..(2 * Len(results.v)) |->
                    IF k % 2 = 1
                    THEN format_result(results.v[(k + 1) \div 2], (k + 1) \div 2)
                    ELSE Rule]

(* Whether the line is searched for. *)
IsSearched(typed) == Strip(typed) # <<>> /\ Lower(Strip(typed)) \notin QuitWords

(* The lines typed into interactive_search. *)
TypedLines ==
    {<<>>, <<"q", "u", "i", "t">>, W_hi, <<" ", "h", "i", " ">>, <<"t", "y", "p", "e", ":", "s", "k", "i", "l", "l">>, <<"t", "y", "p", "e", ":", "s", "k", "i", "l", "l", " ", "h", "i">>,
     <<"t", "y", "p", "e", ":", "m", "a", "n", "u", "a", "l", " ", " ", "h", "i">>, <<"t", "y", "p", "e", ":", "w", "o", "r", "k", "s", "p", "a", "c", "e", " ", "h", "i">>, <<"t", "y", "p", "e", ":", "s", "u", "b", "t", "y", "p", "e", ":", "x", " ", "h", "i">>, <<"t", "y", "p", "e", ":", " ", "h", "i">>}

(* The command lines of rag_query.py: the query, --type, -n and -i, and
   the line typed when it goes interactive. *)
CommandLines ==
    {[op |-> "rag_query.main", query |-> q, type |-> ty, num_results |-> n,
      interactive |-> i, typed |-> line] :
        q \in {PyNone, PyStr(W_hi)},
        ty \in {PyNone, PyStr(<<>>), PyStr(W_skill), PyStr(W_manual)},
        n \in 1..MaxResults, i \in BOOLEAN,
        line \in {W_hi, <<"t", "y", "p", "e", ":", "m", "a", "n", "u", "a", "l", " ", "h", "i">>}}

(* filters = None; if args.type: filters = {"type": args.type} *)
MainFilters(type) == IF Truthy(type) THEN PyDict([type |-> type.v]) ELSE PyNone

AgentMaxResults == 5
W_assistant == <<"a", "s", "s", "i", "s", "t", "a", "n", "t">>
W_hello == <<"h", "e", "l", "l", "o">>
W_older == <<"o", "l", "d", "e", "r">>

(* A message of a conversation: a dict with a role and a content. *)
ChatMsg(role, cont) == [role |-> role, content |-> cont]

(* ' '.join of the text of the text items of a content list. *)
RECURSIVE TextItems(_)
TextItems(items) ==
    IF items = <<>> THEN <<>>
    ELSE IF Head(items).type = "text"
         THEN <<GetStr(Head(items).text, <<>>)>> \o TextItems(Tail(items))
         ELSE TextItems(Tail(items))

(* extract_user_query: the content of the last message of the list whose
   role is user and whose content is a string or a list; '' with none. *)
RECURSIVE extract_user_query(_)
extract_user_query(msgs) ==
    IF msgs = <<>> THEN <<>>
    ELSE LET msg == msgs[Len(msgs)]
         IN  IF msg.role = PyStr(W_user) /\ msg.content.t = "str" THEN msg.content.v
             ELSE IF msg.role = PyStr(W_user) /\ msg.content.t = "list"
             THEN JoinWith(TextItems(msg.content.v), <<" ">>)
             ELSE extract_user_query(SubSeq(msgs, 1, Len(msgs) - 1))

(* The list enhance_message_with_rag hands to extract_user_query: the
   current message first, the history after it. *)
QueryMessages(message_content, conversation_history) ==
    <<ChatMsg(PyStr(W_user), PyStr(message_content))>> \o conversation_history

(* The enhanced message with the context put after the message. *)
EnhancedMessage_puts_context_last(context, message_content) ==
    <<"[", "C", "U", "R", "R", "E", "N", "T", " ", "U", "S", "E", "R", " ", "M", "E", "S", "S", "A", "G", "E", ":", "]", "\n">> \o message_content \o <<"\n", "\n", "-", "-", "-", "\n", "\n">>
    \o <<"[", "R", "A", "G", " ", "C", "O", "N", "T", "E", "X", "T", " ", "-", " ", "R", "e", "t", "r", "i", "e", "v", "e", "d", " ", "f", "r", "o", "m", " ", "k", "n", "o", "w", "l", "e", "d", "g", "e", " ", "b", "a", "s", "e", ":", "]", "\n">> \o context

(* The f-string of enhance_message_with_rag. *)
EnhancedMessage(context, message_content) ==
    <<"[", "R", "A", "G", " ", "C", "O", "N", "T", "E", "X", "T", " ", "-", " ", "R", "e", "t", "r", "i", "e", "v", "e", "d", " ", "f", "r", "o", "m", " ", "k", "n", "o", "w", "l", "e", "d", "g", "e", " ", "b", "a", "s", "e", ":", "]", "\n">> \o context
    \o <<"\n", "\n", "-", "-", "-", "\n", "\n">> \o <<"[", "C", "U", "R", "R", "E", "N", "T", " ", "U", "S", "E", "R", " ", "M", "E", "S", "S", "A", "G", "E", ":", "]", "\n">> \o message_content

(* The conversation histories: none, an assistant's answer, an earlier
   user message as a string, as a list of items or with no content, and a
   user message before an assistant's answer. *)
Histories ==
    {<<>>,
     <<ChatMsg(PyStr(W_assistant), PyStr(W_hello))>>,
     <<ChatMsg(PyStr(W_user), PyStr(W_older))>>,
     <<ChatMsg(PyStr(W_user), PyStr(W_hi))>>,
     <<ChatMsg(PyStr(W_user), PyNone)>>,
     <<ChatMsg(PyStr(W_user),
               PyList(<<Item("text", PyStr(W_older), PyMissing, PyMissing, PyMissing),
                        Item("thinking", PyStr(W_hi), PyMissing, PyMissing, PyMissing),
                        Item("text", PyStr(W_hi), PyMissing, PyMissing, PyMissing)>>))>>,
     <<ChatMsg(PyStr(W_user), PyStr(W_older)), ChatMsg(PyStr(W_assistant), PyStr(W_hello))>>}

(* The calls of enhance_message_with_rag, with whether the store opens. *)
EnhanceCalls ==
    {[op |-> "enhance_message_with_rag", message_content |-> mc,
      conversation_history |-> h, opens |-> o] :
        mc \in {W_hi, W_hello}, h \in Histories, o \in BOOLEAN}

(* The records the add operations store for the documents. *)
StoredRecs ==
    {[id |-> DocumentId(d.text, d.metadata, PyNone, 0), text |-> d.text,
      metadata |-> d.metadata] : d \in StoreDocs}

(* The collections of up to MaxStored records, each ID held once. *)
Collections ==
    {c \in SUBSET StoredRecs :
        /\ Cardinality(c) <= MaxStored
        /\ \A a, b \in c : a.id = b.id => a = b}

(* A collection of one more record than get_stats samples: documents of
   one source added by hand, one at each time, under two types. *)
LargeCollection ==
    {[id |-> DocumentId(W_hi, md, PyNone, 0), text |-> W_hi, metadata |-> md] :
        md \in {ManualMetadata(IF k % 2 = 0 THEN W_manual ELSE W_workspace, W_file, k) :
                   k \in 0..StatsSample}}

(* collection.get(limit=n): up to n of the records, of the store's choosing. *)
CollectionGetLimit(coll, n) ==
    {sample \in SUBSET coll : Cardinality(sample) = Min(n, Cardinality(coll))}

(* The dict of counts the loop of get_stats builds for one metadata key. *)
CountBy(recs, key) ==
    [v \in {MetaGet(rec.metadata, key, W_unknown) : rec \in recs} |->
        Cardinality({rec \in recs : MetaGet(rec.metadata, key, W_unknown) = v})]

(* RAGSystem.get_stats, from collection.count() and the sample of
   collection.get(limit=10); collection_name and persist_directory, the
   constructor's two strings, are left out of the dict. *)
get_stats(coll, sample) ==
    [total_documents |-> Cardinality(coll),
     source_distribution |-> CountBy(sample, "source"),
     type_distribution |-> CountBy(sample, "type")]

(* The calls of add_documents_batch: up to MaxBatch documents, in slices
   of up to MaxBatch, on a collection of at most one record. *)
BatchCalls ==
    {[op |-> "add_documents_batch", documents |-> d, batch_size |-> b] :
        d \in UNION {BatchArgs(n) : n \in 0..MaxBatch}, b \in 1..MaxBatch}

DeleteByFilterCalls == {[op |-> "delete_by_filter", filter |-> f] : f \in Filters}

SearchCalls ==
    {[op |-> "search", query |-> W_hi, n_results |-> n, filters |-> f] :
        n \in 1..MaxResults, f \in SearchFilters}

CallsOf(entry) ==
    IF entry = "add_documents_batch" THEN BatchCalls
    ELSE IF entry = "RAGSystem.search" THEN SearchCalls
    ELSE IF entry \in QueryEntryPoints THEN QueryCalls(entry)
    ELSE IF entry \in ManageCommands THEN ManageCalls(entry)
    ELSE IF entry = "interactive_search"
    THEN {[op |-> entry, typed |-> line] : line \in TypedLines}
    ELSE IF entry = "rag_query.main" THEN CommandLines
    ELSE IF entry = "enhance_message_with_rag" THEN EnhanceCalls
    ELSE IF entry = "get_stats" THEN {[op |-> "get_stats"]}
    ELSE IF entry = "delete_by_filter" THEN DeleteByFilterCalls
    ELSE {}

StartCollections(entry) ==
    IF entry = "add_documents_batch" THEN {c \in Collections : Cardinality(c) <= 1}
    ELSE IF entry \in QueryEntryPoints THEN QueryCollections(BudgetOf(entry))
    ELSE IF entry = "get_stats" THEN Collections \cup {LargeCollection}
    ELSE IF entry = "enhance_message_with_rag"
    THEN {c \in QueryCollections(AgentContextChars) : Cardinality(c) <= 1}
    ELSE Collections

EntryPoints ==
    {"add_documents_batch", "delete_by_filter", "RAGSystem.search"}
    \cup QueryEntryPoints \cup ManageCommands
    \cup {"interactive_search", "rag_query.main", "enhance_message_with_rag",
          "get_stats"}

InitCalls ==
    /\ pc = "start"
    /\ caller \in EntryPoints
    /\ call \in CallsOf(caller)
    /\ collection \in StartCollections(caller)
    /\ outcome = PyNone /\ store_calls = <<>>
    /\ returned = {} /\ now = 0
    /\ chunks = <<>> /\ handed = <<>> /\ overlap = 0
    /\ content = <<>> /\ max_chars = 0
    /\ lines = <<>> /\ messages = <<>> /\ context_window = 0 /\ raised = "none"
    /\ fc_content = PyNone /\ formatted = <<>>

(* What every single call leaves as it is. *)
callFrame == <<caller, call, overlap, chunks, handed, now, returned, docVars, sessionVars>>

(* RAGSystem.add_documents_batch, called once. *)
CallAddDocumentsBatch ==
    /\ pc = "start" /\ caller = "add_documents_batch"
    /\ LET r == add_documents_batch(collection, call.documents, call.batch_size)
       IN  /\ collection' = r.collection
           /\ outcome' = r.all_ids
           /\ store_calls' = r.sent
    /\ pc' = "done"
    /\ UNCHANGED callFrame

(* RAGSystem.delete_by_filter, called once. *)
CallDeleteByFilter ==
    /\ pc = "start" /\ caller = "delete_by_filter"
    /\ LET r == delete_by_filter(collection, call.filter)
       IN  /\ collection' = r.collection
           /\ outcome' = r.count
           /\ store_calls' = r.sent
    /\ pc' = "done"
    /\ UNCHANGED callFrame

(* RAGSystem.search, called once. *)
CallRAGSystemSearch ==
    /\ pc = "start" /\ caller = "RAGSystem.search"
    /\ \E answer \in CollectionQuery(collection, call.n_results, call.filters) :
          /\ outcome' = RAGSystem_search(answer)
          /\ store_calls' = <<QueryCall(call.query, call.n_results, call.filters, answer)>>
    /\ pc' = "done"
    /\ UNCHANGED <<collection, callFrame>>

(* rag_query.search, called once. *)
CallRagQuerySearch ==
    /\ pc = "start" /\ caller = "rag_query.search"
    /\ \E answer \in CollectionQuery(collection, call.n_results, call.filters) :
          /\ outcome' = rag_query_search(call.query, call.filters, call.verbose, answer)
          /\ store_calls' = <<QueryCall(call.query, call.n_results, call.filters, answer)>>
    /\ pc' = "done"
    /\ UNCHANGED <<collection, callFrame>>

(* rag_query_quick.search_context, called once. *)
CallSearchContext ==
    /\ pc = "start" /\ caller = "search_context"
    /\ \E answer \in CollectionQuery(collection, call.n_results, PyNone) :
          /\ outcome' = search_context(answer)
          /\ store_calls' = <<QueryCall(call.query, call.n_results, PyNone, answer)>>
    /\ pc' = "done"
    /\ UNCHANGED <<collection, callFrame>>

(* rag_query_wrapper.search_knowledge, called once. *)
CallSearchKnowledge ==
    /\ pc = "start" /\ caller = "search_knowledge"
    /\ \E answer \in CollectionQuery(collection, call.n_results, PyNone) :
          /\ outcome' = search_knowledge(call.query, answer)
          /\ store_calls' = <<QueryCall(call.query, call.n_results, PyNone, answer)>>
    /\ pc' = "done"
    /\ UNCHANGED <<collection, callFrame>>

(* rag_context.get_context, called once. *)
CallGetContext ==
    /\ pc = "start" /\ caller = "get_context"
    /\ \E answer \in CollectionQuery(collection, call.n_results, PyNone) :
          /\ outcome' = get_context(call.query, answer)
          /\ store_calls' = <<QueryCall(call.query, call.n_results, PyNone, answer)>>
    /\ pc' = "done"
    /\ UNCHANGED <<collection, callFrame>>

(* rag_agent.search_relevant_context, called once: a query shorter than
   MinQueryChars is answered without a search. *)
CallSearchRelevantContext ==
    /\ pc = "start" /\ caller = "search_relevant_context"
    /\ IF Len(call.query) < MinQueryChars
       THEN outcome' = PyStr(<<>>) /\ store_calls' = <<>>
       ELSE \E answer \in CollectionQuery(collection, call.n_results, PyNone) :
               /\ outcome' = search_relevant_context(answer)
               /\ store_calls' = <<QueryCall(call.query, call.n_results, PyNone, answer)>>
    /\ pc' = "done"
    /\ UNCHANGED <<collection, callFrame>>

(* delete_by_source and delete_by_type up to the prompt: the matching
   documents are counted, and with none the command ends. *)
DeleteCommandCounts ==
    /\ pc = "start" /\ caller \in {"delete_by_source", "delete_by_type"}
    /\ LET where == ManageFilter(caller, call)
           count == Cardinality(Ids(CollectionGet(collection, where)))
       IN  /\ store_calls' = <<[op |-> "get", where |-> where]>>
           /\ outcome' = [read |-> <<>>, found |-> count, deleted |-> 0]
           /\ pc' = IF count = 0 THEN "done" ELSE "confirm"
    /\ UNCHANGED <<collection, callFrame>>

(* delete_by_source and delete_by_type from the prompt on: the answer is
   read, and the documents are deleted when it confirms. *)
DeleteCommandAnswered ==
    /\ pc = "confirm" /\ caller \in {"delete_by_source", "delete_by_type"}
    /\ \E typed \in Answers :
          IF ~ConfirmsDelete(typed)
          THEN /\ outcome' = [outcome EXCEPT !.read = Append(@, typed)]
               /\ UNCHANGED <<collection, store_calls>>
          ELSE LET r == delete_by_filter(collection, ManageFilter(caller, call))
               IN  /\ collection' = r.collection
                   /\ store_calls' = store_calls \o r.sent
                   /\ outcome' = [outcome EXCEPT !.read = Append(@, typed),
                                                 !.deleted = r.count]
    /\ pc' = "done"
    /\ UNCHANGED callFrame

(* reset_collection at its first prompt. *)
ResetFirstAnswered ==
    /\ pc = "start" /\ caller = "reset_collection"
    /\ \E typed \in Answers :
          /\ outcome' = [read |-> <<typed>>, found |-> 0, deleted |-> 0]
          /\ pc' = IF ConfirmsReset(typed) THEN "confirm2" ELSE "done"
    /\ UNCHANGED <<collection, store_calls, callFrame>>

(* reset_collection at its second prompt: RAGSystem.reset_collection runs
   when this answer confirms too. *)
ResetSecondAnswered ==
    /\ pc = "confirm2" /\ caller = "reset_collection"
    /\ \E typed \in Answers :
          IF ~ConfirmsReset(typed)
          THEN /\ outcome' = [outcome EXCEPT !.read = Append(@, typed)]
               /\ UNCHANGED <<collection, store_calls>>
          ELSE /\ collection' = CollectionDeleteWhere(collection, NoFilter)
               /\ store_calls' = <<[op |-> "delete", where |-> NoFilter]>>
               /\ outcome' = [outcome EXCEPT !.read = Append(@, typed),
                                             !.deleted = Cardinality(collection)]
    /\ pc' = "done"
    /\ UNCHANGED callFrame

(* interactive_search for one line typed. *)
InteractiveSearch(typed) ==
    LET parsed == InteractiveParse(Strip(typed))
    IN  IF ~IsSearched(typed)
        THEN /\ outcome' = [printed |-> InteractiveBanner(collection)
                                        \o InteractiveRound(typed, StoreError)]
             /\ store_calls' = StatsCalls
        ELSE \E answer \in CollectionQuery(collection, InteractiveResults, parsed.filters) :
                /\ outcome' = [printed |-> InteractiveBanner(collection)
                                           \o InteractiveRound(typed, answer)]
                /\ store_calls' = StatsCalls
                      \o <<QueryCall(parsed.query, InteractiveResults,
                                     parsed.filters, answer)>>

CallInteractiveSearch ==
    /\ pc = "start" /\ caller = "interactive_search"
    /\ InteractiveSearch(call.typed)
    /\ pc' = "done"
    /\ UNCHANGED <<collection, callFrame>>

(* rag_query.py run from the command line. *)
CallMain ==
    /\ pc = "start" /\ caller = "rag_query.main"
    /\ IF call.interactive \/ ~Truthy(call.query)
       THEN InteractiveSearch(call.typed)
       ELSE \E answer \in CollectionQuery(collection, call.num_results,
                                          MainFilters(call.type)) :
               /\ outcome' = rag_query_search(call.query.v, MainFilters(call.type),
                                              TRUE, answer)
               /\ store_calls' = <<QueryCall(call.query.v, call.num_results,
                                             MainFilters(call.type), answer)>>
    /\ pc' = "done"
    /\ UNCHANGED <<collection, callFrame>>

(* rag_agent.enhance_message_with_rag, called once.  A store that cannot
   be opened raises in RAGSystem(...): the handler returns the message. *)
CallEnhanceMessage ==
    /\ pc = "start" /\ caller = "enhance_message_with_rag"
    /\ LET user_query == extract_user_query(
                            QueryMessages(call.message_content, call.conversation_history))
       IN  IF ~call.opens
           THEN outcome' = PyStr(call.message_content) /\ store_calls' = <<>>
           ELSE IF Len(user_query) < MinQueryChars
           THEN outcome' = PyStr(call.message_content) /\ store_calls' = <<>>
           ELSE \E answer \in CollectionQuery(collection, AgentMaxResults, PyNone) :
                   LET context == search_relevant_context(answer).v
                   IN  /\ outcome' = IF context = <<>> THEN PyStr(call.message_content)
                                     ELSE PyStr(EnhancedMessage(context, call.message_content))
                       /\ store_calls' = <<QueryCall(user_query, AgentMaxResults,
                                                     PyNone, answer)>>
    /\ pc' = "done"
    /\ UNCHANGED <<collection, callFrame>>

(* RAGSystem.get_stats, called once. *)
CallGetStats ==
    /\ pc = "start" /\ caller = "get_stats"
    /\ \E sample \in CollectionGetLimit(collection, StatsSample) :
          outcome' = get_stats(collection, sample)
    /\ store_calls' = StatsCalls
    /\ pc' = "done"
    /\ UNCHANGED <<collection, callFrame>>

NextCalls ==
    \/ CallEnhanceMessage
    \/ CallGetStats
    \/ CallInteractiveSearch
    \/ CallMain
    \/ DeleteCommandCounts
    \/ DeleteCommandAnswered
    \/ ResetFirstAnswered
    \/ ResetSecondAnswered
    \/ CallAddDocumentsBatch
    \/ CallDeleteByFilter
    \/ CallRAGSystemSearch
    \/ CallRagQuerySearch
    \/ CallSearchContext
    \/ CallSearchKnowledge
    \/ CallGetContext
    \/ CallSearchRelevantContext

SpecCalls == InitCalls /\ [][NextCalls]_vars

----------------------------------------------------------------------------
(* Properties of add_documents_batch *)

BatchRan == pc = "done" /\ caller = "add_documents_batch"

(* The IDs of the slices sent to the store, one after the other. *)
RECURSIVE SentIds(_)
SentIds(calls) ==
    IF calls = <<>> THEN <<>> ELSE Head(calls).ids \o SentIds(Tail(calls))

(* One ID per document, in input order: a document's own id, or the digest
   of its type, source, date, chunk index and text prefix. *)
OneIdPerDocument ==
    /\ Len(outcome) = Len(call.documents)
    /\ \A j \in 1..Len(call.documents) :
          LET doc == call.documents[j]
          IN  IF "id" \in DOMAIN doc THEN outcome[j] = doc.id
              ELSE outcome[j] = Md5(BatchUniqueStr(doc))

(* The documents go to the store in consecutive slices of batch_size, the
   last one holding what is left. *)
SentInSlices ==
    /\ SentIds(store_calls) = outcome
    /\ \A k \in 1..Len(store_calls) :
          /\ store_calls[k].op = "add"
          /\ Len(store_calls[k].ids) >= 1
          /\ Len(store_calls[k].ids) <= call.batch_size
          /\ k < Len(store_calls) => Len(store_calls[k].ids) = call.batch_size

(* The j-th document is in the store under the ID returned for it. *)
StoredUnderReturnedId(j) ==
    [id |-> outcome[j], text |-> call.documents[j].text,
     metadata |-> call.documents[j].metadata] \in collection

(* C18 as stated: one ID per document in input order, consecutive slices of
   at most batch_size, own or generated IDs, and afterwards every input
   document is in the store under the ID returned for it. *)
C18_EveryDocumentStored ==
    BatchRan =>
        /\ OneIdPerDocument
        /\ SentInSlices
        /\ \A j \in 1..Len(call.documents) : StoredUnderReturnedId(j)

(* No later document of the input was given the same ID. *)
LastWithItsId(j) == \A k \in (j + 1)..Len(call.documents) : outcome[k] # outcome[j]

(* C18 as amended: the same, except that of several input documents given
   the same ID only the last one is in the store under it afterwards. *)
C18_LastDocumentOfAnIdStored ==
    BatchRan =>
        /\ OneIdPerDocument
        /\ SentInSlices
        /\ \A j \in 1..Len(call.documents) :
              LastWithItsId(j) => StoredUnderReturnedId(j)
        /\ \A a, b \in collection : a.id = b.id => a = b

C18_Witness ==
    /\ BatchRan
    /\ Len(store_calls) >= 2
    /\ \E j \in 1..Len(call.documents) :
          /\ ~LastWithItsId(j)
          /\ ~StoredUnderReturnedId(j)
          /\ "id" \notin DOMAIN call.documents[j]

----------------------------------------------------------------------------
(* Properties of delete_by_filter *)

DeleteByFilterRan == pc = "done" /\ caller = "delete_by_filter"

(* C19: delete_by_filter returns the number of documents that matched the
   filter when it was called; afterwards no document matching the filter
   remains and every document that did not match is there unchanged; when
   nothing matches it returns 0 and leaves the collection as it was. *)
C19_DeleteByFilterEffect ==
    [][(pc = "start" /\ caller = "delete_by_filter") =>
          LET matching == {rec \in collection : Matches(rec, call.filter)}
          IN  /\ outcome' = Cardinality(matching)
              /\ \A rec \in collection' : ~Matches(rec, call.filter)
              /\ \A rec \in collection \ matching : rec \in collection'
              /\ collection' \subseteq collection
              /\ matching = {} => (outcome' = 0 /\ collection' = collection)]_vars

(* Some documents were deleted and some were left. *)
C19_Witness ==
    /\ DeleteByFilterRan
    /\ outcome >= 1
    /\ collection # {}
    /\ Len(store_calls) = 2

----------------------------------------------------------------------------
(* Properties of RAGSystem.search *)

SearchRan == pc = "done" /\ caller = "RAGSystem.search"

SearchAnswered == SearchRan /\ store_calls[1].answer.t = "ok"

(* C17: RAGSystem.search returns the store's results in the store's rank
   order and gives the result at 0-based rank i of n the score 1 - i/n: the
   top result scores 1, the scores strictly decrease with the rank, every
   score is strictly positive, and an empty store result gives an empty
   list (no division by zero). *)
C17_PositionalScores ==
    SearchAnswered =>
        LET ranked == store_calls[1].answer.v
            n == Len(ranked)
            res == outcome.v
        IN  /\ outcome.t = "list"
            /\ Len(res) = n
            /\ \A k \in 1..n :
                  /\ res[k].id = ranked[k].id
                  /\ res[k].text = ranked[k].text
                  /\ res[k].metadata = ranked[k].metadata
                  /\ res[k].score.den > 0
                  /\ res[k].score.num * n = (n - (k - 1)) * res[k].score.den
                  /\ res[k].score.num > 0
            /\ n >= 1 => res[1].score.num = res[1].score.den
            /\ \A k \in 1..(n - 1) :
                  res[k + 1].score.num * res[k].score.den
                      < res[k].score.num * res[k + 1].score.den
            /\ ranked = <<>> => res = <<>>

(* A search that returned several ranked results. *)
C17_Witness ==
    /\ SearchAnswered
    /\ Len(outcome.v) >= 2
    /\ outcome.v[2].score.num >= 1

----------------------------------------------------------------------------
(* Properties of the query entry points *)

QueryRan == pc = "done" /\ caller \in QueryEntryPoints

StoreFailed == Len(store_calls) = 1 /\ store_calls[1].answer.t = "error"

(* The empty result of the entry point: an empty list, an empty string, or
   a count of 0 with no items. *)
EmptyResult ==
    IF caller = "rag_query.search" THEN outcome.t = "list" /\ outcome.v = <<>>
    ELSE IF caller = "search_knowledge" THEN outcome.count = 0 /\ outcome.items = <<>>
    ELSE outcome.t = "str" /\ outcome.v = <<>>

(* C14: when the store's query fails, every query entry point returns an
   empty result and does not pass the error on to its caller. *)
C14_StoreFailureGivesEmptyResult ==
    (QueryRan /\ StoreFailed) => EmptyResult

(* The entry points that keep to it. *)
C14_OtherEntryPointsEmpty ==
    (QueryRan /\ StoreFailed /\ caller \notin {"rag_query.search", "search_context"})
        => EmptyResult

----------------------------------------------------------------------------
(* Properties of the query formatters *)

(* A formatter ran on the results of the store's answer. *)
Formatted ==
    /\ pc = "done"
    /\ caller \in {"rag_query.search", "search_context", "get_context",
                   "search_relevant_context"}
    /\ Len(store_calls) = 1
    /\ store_calls[1].answer.t = "ok"
    /\ store_calls[1].answer.v # <<>>
    /\ caller = "rag_query.search" => call.verbose

Found == store_calls[1].answer.v

FoundType(i) == MetaGet(Found[i].metadata, "type", W_unknown)

(* The item search_knowledge makes of the i-th result. *)
FoundItem(i) ==
    [text |-> Found[i].text, type |-> FoundType(i),
     source |-> MetaGet(Found[i].metadata, "source", W_unknown),
     chunk_index |-> MetaGet(Found[i].metadata, "chunk_index", 0),
     date |-> MetaGet(Found[i].metadata, "date", <<>>)]

(* The output of the entry point's formatter when the i-th result is
   labelled with the header of kinds[i] and has the body bodies[i]. *)
OutputWith(kinds, bodies) ==
    LET n == Len(Found)
    IN  IF caller = "rag_query.search"
        THEN SearchPrinted(call.query, call.filters, PyList(Found),
                [i \in 1..n |->
                    FormatResultText(FormatResultHeader(kinds[i], Found[i].metadata),
                                     Found[i].metadata, bodies[i])])
        ELSE IF caller = "search_context"
        THEN SearchContextText(
                [i \in 1..n |-> SearchContextHeader(kinds[i], Found[i].metadata, i)],
                bodies)
        ELSE IF caller = "get_context"
        THEN FormatForAiText(n,
                [i \in 1..n |-> FormatForAiHeader(kinds[i], FoundItem(i))], bodies)
        ELSE AgentContextText(
                [i \in 1..n |-> AgentContextHeader(kinds[i], Found[i].metadata, i)],
                bodies)

Output == IF caller = "rag_query.search" THEN outcome.printed ELSE outcome.v

(* The session, workspace or skill header, and the generic one otherwise. *)
ClaimedKinds == [i \in 1..Len(Found) |-> HeaderKind(FoundType(i))]

(* The text when it fits the budget, and its first budget characters
   otherwise. *)
ClaimedBodies ==
    [i \in 1..Len(Found) |->
        IF Len(Found[i].text) <= BudgetOf(caller) THEN Found[i].text
        ELSE Take(Found[i].text, BudgetOf(caller))]

(* C20 as stated: every query formatter labels each result by its type
   with the session, workspace or skill header and a generic header
   otherwise, and emits as the body the text when it fits the budget of
   the call site and its first budget characters otherwise, so that no
   body exceeds the budget. *)
C20_BodyWithinBudget ==
    Formatted => Output = OutputWith(ClaimedKinds, ClaimedBodies)

(* format_result has a header of its own for the memory type. *)
KindsWithMemory ==
    [i \in 1..Len(Found) |->
        IF caller = "rag_query.search" /\ FoundType(i) = W_memory THEN "memory"
        ELSE HeaderKind(FoundType(i))]

(* A text over the budget is cut to the budget and marked with "...". *)
BodiesWithEllipsis ==
    [i \in 1..Len(Found) |->
        IF Len(Found[i].text) <= BudgetOf(caller) THEN Found[i].text
        ELSE Take(Found[i].text, BudgetOf(caller)) \o W_dots]

(* C20 as the formatters are: the header is the session, workspace or
   skill one by the type (in format_result also the memory one) and the
   generic one otherwise; the body is the text when it fits the budget
   and otherwise its first budget characters followed by "...", three
   characters over the budget. *)
C20_BodyCutWithEllipsis ==
    Formatted =>
        /\ Output = OutputWith(KindsWithMemory, BodiesWithEllipsis)
        /\ \A i \in 1..Len(Found) :
              /\ Len(BodiesWithEllipsis[i]) <= BudgetOf(caller) + Len(W_dots)
              /\ Len(Found[i].text) > BudgetOf(caller)
                    => Len(BodiesWithEllipsis[i]) = BudgetOf(caller) + Len(W_dots)

(* A formatter that cut a text over its budget. *)
C20_Witness ==
    /\ Formatted
    /\ \E i \in 1..Len(Found) : Len(Found[i].text) > BudgetOf(caller)
    /\ \E i \in 1..Len(Found) : Len(Found[i].text) = BudgetOf(caller)

----------------------------------------------------------------------------
(* Properties of the management commands *)

(* The answers that say yes to a delete command, and to a reset: the
   answer is read without the blanks around it and without regard to the
   case of its letters. *)
YesOrY == {typed \in Answers : Lower(Strip(typed)) \in {W_yes, W_y}}
YesOnly == {typed \in Answers : Lower(Strip(typed)) = W_yes}

(* The user has answered every prompt of the command with a yes. *)
Affirmed ==
    /\ caller \in ManageCommands
    /\ outcome # PyNone
    /\ IF caller = "reset_collection"
       THEN Len(outcome.read) = 2 /\ \A k \in 1..2 : outcome.read[k] \in YesOnly
       ELSE Len(outcome.read) = 1 /\ outcome.read[1] \in YesOrY

(* C15: in every run of the management commands no document leaves the
   collection unless the user has answered the prompt with a yes:
   delete_by_source and delete_by_type delete only after yes or y,
   reset_collection only after yes at both prompts; after any other answer
   the collection is as it was before the command. *)
C15_NoDeletionWithoutConfirmation ==
    [][(caller \in ManageCommands) =>
          (/\ collection' # collection => Affirmed'
           /\ collection' \subseteq collection
           /\ (pc' = "done" /\ ~Affirmed') => collection' = collection)]_vars

(* A delete command that deleted after a yes, and a reset that emptied the
   collection after two. *)
C15_Witness ==
    /\ pc = "done"
    /\ Affirmed
    /\ outcome.deleted >= 1
    /\ caller = "delete_by_type" => collection # {}

----------------------------------------------------------------------------
(* Properties of the type filter *)

(* The queries sent to the store in the call. *)
QueriesSent == SelectSeq(store_calls, LAMBDA c : c.op = "query")

SearchedOnce ==
    /\ pc = "done"
    /\ caller \in {"RAGSystem.search", "rag_query.search", "interactive_search",
                   "rag_query.main"}
    /\ Len(QueriesSent) = 1

(* The results the store gave for the query sent. *)
ResultsOfQuery ==
    IF QueriesSent[1].answer.t = "ok" THEN QueriesSent[1].answer.v ELSE <<>>

(* Every result of a query sent with a type filter has the type of the
   filter. *)
FilteredResultsHaveType ==
    (SearchedOnce /\ QueriesSent[1].where.t = "dict"
                  /\ "type" \in DOMAIN QueriesSent[1].where.v)
        => \A k \in 1..Len(ResultsOfQuery) :
              MetaGet(ResultsOfQuery[k].metadata, "type", W_unknown)
                  = QueriesSent[1].where.v.type

(* The line has the form type:T <query>. *)
HasTypeForm(line) ==
    /\ StartsWith(line, W_type_colon)
    /\ \E i \in 1..Len(line) : line[i] \in Whitespace

(* The T of such a line: what stands between "type:" and the first blank. *)
TypeOfLine(line) ==
    LET first == CHOOSE i \in 1..Len(line) :
                    line[i] \in Whitespace /\ \A j \in 1..(i - 1) : line[j] \notin Whitespace
    IN  SubSeq(line, Len(W_type_colon) + 1, first - 1)

(* The type filter the user gave in the call, if any. *)
GivenType ==
    IF caller = "rag_query.main" /\ call.type # PyNone THEN call.type
    ELSE IF caller = "interactive_search" /\ HasTypeForm(Strip(call.typed))
    THEN PyStr(TypeOfLine(Strip(call.typed)))
    ELSE PyNone

(* C16: a search given a type filter T returns only results whose type is
   T, and the --type T option and the interactive type:T <query> form
   both pass the filter {type: T} unchanged to the store query. *)
C16_TypeFilterPassedUnchanged ==
    /\ FilteredResultsHaveType
    /\ (SearchedOnce /\ GivenType # PyNone)
          => /\ QueriesSent[1].where = PyDict([type |-> GivenType.v])
             /\ \A k \in 1..Len(ResultsOfQuery) :
                   MetaGet(ResultsOfQuery[k].metadata, "type", W_unknown) = GivenType.v

(* The filter does reach the store when --type T has a non-empty T and
   the query is on the command line without -i, and when the T of an
   interactive line holds no "type:" of its own. *)
TypeFilterPassedWhereParsed ==
    (/\ SearchedOnce
     /\ GivenType # PyNone
     /\ (caller = "rag_query.main")
           => (GivenType.v # <<>> /\ ~call.interactive /\ Truthy(call.query))
     /\ (caller = "interactive_search")
           => (Remove(GivenType.v, W_type_colon) = GivenType.v))
        => QueriesSent[1].where = PyDict([type |-> GivenType.v])

----------------------------------------------------------------------------
(* The size of the chunks of chunk_text *)

(* As Covers, and a run of several paragraphs, trimmed, is within maxc;
   only a paragraph longer than maxc, a run by itself, is not. *)
RECURSIVE CoversWithin(_, _, _, _, _)
CoversWithin(paras, from, cs, j, maxc) ==
    IF j > Len(cs) THEN from > Len(paras)
    ELSE \E e \in from..Len(paras) :
            /\ cs[j] = Strip(Join(paras, from, e))
            /\ \/ StrLen(cs[j]) <= maxc
               \/ from = e /\ StrLen(paras[from]) > maxc
            /\ CoversWithin(paras, e + 1, cs, j + 1, maxc)

(* C23: for a text longer than max_chars every chunk of chunk_text is at
   most max_chars long unless it is a single paragraph that is itself
   longer than max_chars; no chunk of several paragraphs is over the
   limit. *)
C23_ChunksWithinLimit ==
    (ChunkTextRan /\ StrLen(content) > max_chars) =>
        /\ CoversWithin(Split(content), 1, chunks, 1, max_chars)
        /\ \A j \in 1..Len(chunks) :
              StrLen(chunks[j]) > max_chars =>
                  \E k \in 1..Len(Split(content)) :
                      /\ chunks[j] = Strip(Split(content)[k])
                      /\ StrLen(Split(content)[k]) > max_chars

(* A chunk of two paragraphs as long as the test lets it be (the buffer
   with its two separators fills the limit), and a chunk after it. *)
C23_Witness ==
    /\ ChunkTextRan
    /\ StrLen(content) > max_chars
    /\ Len(chunks) >= 2
    /\ Len(Split(chunks[1])) >= 2
    /\ StrLen(chunks[1]) + 2 = max_chars
    /\ chunks[2] # <<>>

----------------------------------------------------------------------------
(* The chunk indices of a file *)

FileIngested == pc = "done" /\ caller \in {"workspace", "skills"}

(* C29: the chunks ingest_workspace and ingest_skills store for one file
   carry chunk_index 0, 1, ..., total_chunks - 1 in chunk order, each
   once, with total_chunks the number of chunks of the file and the same
   source and type on every chunk. *)
C29_ChunkIndicesInOrder ==
    FileIngested =>
        /\ Len(handed) = Len(chunks)
        /\ \A i \in 1..Len(handed) :
              /\ handed[i].text = chunks[i]
              /\ handed[i].metadata.chunk_index = i - 1
              /\ handed[i].metadata.total_chunks = Len(chunks)
              /\ handed[i].metadata.source = handed[1].metadata.source
              /\ handed[i].metadata.type = handed[1].metadata.type
              /\ handed[i].metadata.type = IF caller = "workspace" THEN W_workspace
                                           ELSE W_skill

(* A workspace file of several chunks. *)
C29_Witness ==
    /\ FileIngested
    /\ caller = "workspace"
    /\ Len(handed) >= 2
    /\ handed[2].metadata.chunk_index = 1

----------------------------------------------------------------------------
(* Whether chunk_messages returns *)

ChunkMessagesEnded ==
    /\ pc \in {"done", "crashed"}
    /\ caller \in {"chunk_messages", "ingest_sessions"}

(* C25: for every message list parse_jsonl can return and every
   0 <= overlap < window, chunk_messages returns without raising, also
   when a role, id, sessionKey or timestamp is None; so the messages of a
   session never end the run of ingest_sessions. *)
C25_ChunkMessagesReturns ==
    ChunkMessagesEnded => (raised = "none" /\ pc = "done")

(* The first message of every window that has a text to store. *)
WindowFirsts ==
    {k * (context_window - overlap) + 1 : k \in ClaimedStarts}

(* chunk_messages does return when every message with a text has a string
   for its role and the first message of every window has an id or a
   sessionKey; a missing timestamp never makes it raise. *)
ReturnsWithRolesAndIds ==
    (/\ ChunkMessagesEnded
     /\ caller = "chunk_messages"
     /\ RolesAreStrings
     /\ \A j \in WindowFirsts : Truthy(messages[j].sessionKey) \/ Truthy(messages[j].id))
        => raised = "none"

----------------------------------------------------------------------------
(* Whether windowing loses a message *)

(* The messages whose content renders non-blank. *)
Rendered == {j \in 1..Len(messages) : Strip(format_content(messages[j].content)) # <<>>}

(* The j-th message is in the text of the chunk: the chunk is the window
   of its index, rendered, and the message is one of that window. *)
InChunk(j, c) == IsClaimedWindow(c) /\ j \in WindowOf(c)

(* C28: for every message list and every 0 <= overlap < window, each
   message whose rendered content is non-blank is in the text of at least
   one chunk chunk_messages returns. *)
C28_NoMessageLost ==
    ChunkMessagesRan =>
        \A j \in Rendered : \E i \in 1..Len(chunks) : InChunk(j, chunks[i])

(* Whenever chunk_messages returns, no such message is lost. *)
NoMessageLostWhenReturned ==
    (ChunkMessagesRan /\ raised = "none") =>
        \A j \in Rendered : \E i \in 1..Len(chunks) : InChunk(j, chunks[i])

----------------------------------------------------------------------------
(* The IDs of the two add operations *)

(* The same text and metadata, no id supplied, added once by each
   operation. *)
AddedBothWays(a, b) ==
    /\ a.op = "add_document" /\ b.op = "add_documents_batch"
    /\ a.text = b.text /\ a.metadata = b.metadata
    /\ a.supplied = PyNone /\ b.supplied = PyNone

(* C26: for the same text and the same metadata with no id supplied,
   add_document and add_documents_batch generate the same document ID. *)
C26_SameIdFromBothOperations ==
    \A a, b \in returned : AddedBothWays(a, b) => a.id = b.id

(* The two IDs are the same when the metadata has a date and the text is
   no longer than the prefix add_documents_batch hashes. *)
SameIdWithDateAndShortText ==
    \A a, b \in returned :
        (/\ AddedBothWays(a, b)
         /\ "date" \in DOMAIN a.metadata
         /\ Len(a.text) <= BatchIdTextChars)
            => a.id = b.id

----------------------------------------------------------------------------
(* Properties of enhance_message_with_rag *)

EnhanceRan == pc = "done" /\ caller = "enhance_message_with_rag"

(* The search was made and found something. *)
ContextFound ==
    /\ Len(store_calls) = 1
    /\ store_calls[1].answer.t = "ok"
    /\ store_calls[1].answer.v # <<>>

(* The string has the part at position i. *)
HasAt(s, part, i) == i + Len(part) - 1 <= Len(s) /\ SubSeq(s, i, i + Len(part) - 1) = part

(* The string holds the context and, after it, ends with the message. *)
ContextThenMessage(s, context, message) ==
    /\ HasAt(s, message, Len(s) - Len(message) + 1)
    /\ \E i \in 1..Len(s) :
          HasAt(s, context, i) /\ i + Len(context) - 1 <= Len(s) - Len(message)

(* C22: enhance_message_with_rag returns message_content unchanged when
   the store cannot be opened, the search raises, the query is shorter
   than 3 characters or the search finds nothing; in every other case the
   string returned holds the retrieved context and, after it, the
   message_content unmodified at its end. *)
C22_UnchangedOrContextFirst ==
    EnhanceRan =>
        /\ outcome.t = "str"
        /\ IF ContextFound
           THEN /\ outcome.v # call.message_content
                /\ ContextThenMessage(outcome.v,
                      search_relevant_context(store_calls[1].answer).v,
                      call.message_content)
           ELSE outcome.v = call.message_content

(* A message enhanced with a context cut at the budget. *)
C22_Witness ==
    /\ EnhanceRan
    /\ ContextFound
    /\ Len(store_calls[1].answer.v[1].text) > AgentContextChars
    /\ Len(outcome.v) > AgentContextChars

(* C24: for every conversation_history, also one with user messages, and
   every message_content, the query enhance_message_with_rag passes to
   the search is message_content. *)
C24_QueryIsCurrentMessage ==
    (EnhanceRan /\ call.opens) =>
        /\ extract_user_query(QueryMessages(call.message_content,
                                            call.conversation_history))
              = call.message_content
        /\ \A k \in 1..Len(store_calls) :
              store_calls[k].query_texts = <<call.message_content>>

(* The history has a user message whose content is a string or a list. *)
HistoryHasUserQuery ==
    \E k \in 1..Len(call.conversation_history) :
        /\ call.conversation_history[k].role = PyStr(W_user)
        /\ call.conversation_history[k].content.t \in {"str", "list"}

(* The query is the message_content when the history has no user message
   to take in its place. *)
QueryIsCurrentMessageWithoutUserHistory ==
    (EnhanceRan /\ ~HistoryHasUserQuery) =>
        \A k \in 1..Len(store_calls) :
            store_calls[k].query_texts = <<call.message_content>>

----------------------------------------------------------------------------
(* Properties of get_stats *)

GetStatsRan == pc = "done" /\ caller = "get_stats"

(* The sum of the counts of a distribution. *)
RECURSIVE SumCounts(_)
SumCounts(dist) ==
    IF DOMAIN dist = {} THEN 0
    ELSE LET k == CHOOSE k \in DOMAIN dist : TRUE
         IN  dist[k] + SumCounts([j \in DOMAIN dist \ {k} |-> dist[j]])

(* C27: get_stats reports total_documents equal to the number of
   documents in the collection, and the counts of type_distribution, and
   those of source_distribution, sum to total_documents. *)
C27_DistributionsSumToTotal ==
    GetStatsRan =>
        /\ outcome.total_documents = Cardinality(collection)
        /\ SumCounts(outcome.type_distribution) = outcome.total_documents
        /\ SumCounts(outcome.source_distribution) = outcome.total_documents

(* The total is the size of the collection, and the distributions count
   the documents of the sample: the whole collection up to 10 documents. *)
DistributionsSumToSample ==
    GetStatsRan =>
        /\ outcome.total_documents = Cardinality(collection)
        /\ SumCounts(outcome.type_distribution) = Min(StatsSample, outcome.total_documents)
        /\ SumCounts(outcome.source_distribution) = Min(StatsSample, outcome.total_documents)

----------------------------------------------------------------------------
(* The ingest runs over a scan list of files *)

MaxFiles == 2
WorkspaceFileLimit == 100
SessionBatchSize == 50

IngestEntryPoints == {"ingest_workspace", "ingest_skills", "ingest_sessions"}

(* The path of the k-th file of the scan list, and so its source. *)
FileName(k) == <<"f">> \o Digits(k)

(* The documents of a file under the source of the file. *)
Named(docs, k) == [i \in 1..Len(docs) |-> [docs[i] EXCEPT !.metadata.source = FileName(k)]]

(* rag.add_document for each document in turn: the collection and the IDs. *)
RECURSIVE AddEach(_, _, _)
AddEach(st, docs, clock) ==
    IF docs = <<>> THEN st
    ELSE LET doc == Head(docs)
             id == DocumentId(doc.text, doc.metadata, PyNone, clock)
         IN  AddEach([collection |-> Upsert(st.collection,
                          [id |-> id, text |-> doc.text, metadata |-> doc.metadata]),
                      ids |-> Append(st.ids, id)],
                     Tail(docs), clock)

(* What a run did with a file: whether its loop reached it, the documents
   it handed to the store for it and their IDs. *)
NotReached == [reached |-> FALSE, docs |-> <<>>, ids |-> <<>>]
Skipped == [reached |-> TRUE, docs |-> <<>>, ids |-> <<>>]

IngestStart(files) ==
    [collection |-> {}, status |-> "running",
     files |-> [k \in 1..Len(files) |-> NotReached]]

(* The loop body of ingest_workspace and of ingest_skills for one file:
   read_file_safe gives None for a file whose read raises, and the loop
   goes on to the next file. *)
DocsPass(st, file, k, docs, clock) ==
    IF ~file.readable THEN [st EXCEPT !.files[k] = Skipped]
    ELSE LET added == AddEach([collection |-> st.collection, ids |-> <<>>], docs, clock)
         IN  [st EXCEPT !.collection = added.collection,
                        !.files[k] = [reached |-> TRUE, docs |-> docs, ids |-> added.ids]]

WorkspaceFileDocs(file, k, clock) ==
    Named(WorkspaceDocs(file.text, WorkspaceChunks(file.text), clock), k)

SkillFileDocs(file, k, clock) ==
    Named(SkillDocs(chunk_text(file.text, SkillMaxChars, SkillOverlap), clock), k)

(* The passes of the loop for the files lo..hi in their order, computed
   as those of the first half followed by those of the second half. *)
RECURSIVE WorkspaceLoop(_, _, _, _, _)
WorkspaceLoop(st, files, lo, hi, clock) ==
    IF lo > hi THEN st
    ELSE IF lo = hi
    THEN DocsPass(st, files[lo], lo, WorkspaceFileDocs(files[lo], lo, clock), clock)
    ELSE LET mid == (lo + hi) \div 2
             first == WorkspaceLoop(st, files, lo, mid, clock)
         IN  IF first.status # "running" THEN first
             ELSE WorkspaceLoop(first, files, mid + 1, hi, clock)

(* ingest_workspace: the loop over all_files[:100]. *)
ingest_workspace(files, clock) ==
    [WorkspaceLoop(IngestStart(files), files, 1,
                   Min(Len(files), WorkspaceFileLimit), clock)
        EXCEPT !.status = "returned"]

RECURSIVE SkillLoop(_, _, _)
SkillLoop(files, k, clock) ==
    IF k = 0 THEN IngestStart(files)
    ELSE DocsPass(SkillLoop(files, k - 1, clock), files[k], k,
                  SkillFileDocs(files[k], k, clock), clock)

(* ingest_skills: the loop over skill_files. *)
ingest_skills(files, clock) ==
    [SkillLoop(files, Len(files), clock) EXCEPT !.status = "returned"]

(* parse_jsonl on a file whose read raises after `got` of its lines: the
   outer handler returns the messages of the lines read before. *)
ParseFile(file) == parse_jsonl(SubSeq(file.lines, 1, file.got))

(* The loop body of ingest_sessions for one file.  chunk_messages is
   called outside every try: its exception ends the run. *)
SessionPass(st, file, k, clock) ==
    IF st.status # "running" THEN st
    ELSE LET msgs == ParseFile(file)
             r == chunk_messages(msgs, DefaultWindow, DefaultWindowOverlap, clock)
         IN  IF msgs = <<>> THEN [st EXCEPT !.files[k] = Skipped]
             ELSE IF r.raised # "none"
             THEN [st EXCEPT !.status = r.raised, !.files[k] = Skipped]
             ELSE IF r.chunks = <<>> THEN [st EXCEPT !.files[k] = Skipped]
             ELSE LET added == add_documents_batch(st.collection, r.chunks, SessionBatchSize)
                  IN  [st EXCEPT !.collection = added.collection,
                                 !.files[k] = [reached |-> TRUE, docs |-> r.chunks,
                                               ids |-> added.all_ids]]

RECURSIVE SessionLoop(_, _, _)
SessionLoop(files, k, clock) ==
    IF k = 0 THEN IngestStart(files)
    ELSE SessionPass(SessionLoop(files, k - 1, clock), files[k], k, clock)

(* ingest_sessions: the loop over sorted(jsonl_files). *)
ingest_sessions(files, clock) ==
    LET st == SessionLoop(files, Len(files), clock)
    IN  IF st.status = "running" THEN [st EXCEPT !.status = "returned"] ELSE st

(* The files of a workspace or skills scan: one whose read raises, an empty
   one, a small one, and one long enough to be cut in chunks. *)
IngestTexts == {<<>>, <<Run>>, <<Run, Run, "\n", "\n", Run>>}
TextFiles ==
    {[readable |-> FALSE, text |-> <<>>]} \cup {[readable |-> TRUE, text |-> t] : t \in IngestTexts}

(* A scan list of one file more than ingest_workspace takes: the second
   and the last can be read, the others cannot. *)
LongScan ==
    [k \in 1..(WorkspaceFileLimit + 1) |->
        IF k \in {2, WorkspaceFileLimit + 1} THEN [readable |-> TRUE, text |-> <<Run>>]
        ELSE [readable |-> FALSE, text |-> <<>>]]

(* The logs of a sessions scan: a message with an id, one without, two
   messages, and no line; each read whole, or up to a line where the read
   raises. *)
IdLine == Line("object", "message", "dict", PyStr(W_user), PyStr(W_hi), EventTime, EventId)
NoIdLine == Line("object", "message", "dict", PyStr(W_user), PyStr(W_hi), EventTime, PyNone)
IngestLogs == {<<>>, <<IdLine>>, <<NoIdLine>>, <<IdLine, IdLine>>}
LogFilesRead ==
    {[lines |-> l, fails |-> FALSE, got |-> Len(l)] : l \in IngestLogs}
    \cup UNION {{[lines |-> l, fails |-> TRUE, got |-> g] : g \in 0..Len(l)} : l \in IngestLogs}

ScanLists(entry) ==
    IF entry = "ingest_sessions" THEN UNION {[1..n -> LogFilesRead] : n \in 0..MaxFiles}
    ELSE IF entry = "ingest_workspace"
    THEN UNION {[1..n -> TextFiles] : n \in 0..MaxFiles} \cup {LongScan}
    ELSE UNION {[1..n -> TextFiles] : n \in 0..MaxFiles}

InitIngest ==
    /\ pc = "start"
    /\ caller \in IngestEntryPoints
    /\ call \in {[op |-> caller, files |-> fs] : fs \in ScanLists(caller)}
    /\ outcome = PyNone /\ store_calls = <<>>
    /\ collection = {} /\ returned = {}
    /\ now = 0
    /\ chunks = <<>> /\ handed = <<>> /\ overlap = 0
    /\ content = <<>> /\ max_chars = 0
    /\ lines = <<>> /\ messages = <<>> /\ context_window = 0 /\ raised = "none"
    /\ fc_content = PyNone /\ formatted = <<>>

(* The run ends: afterwards the store holds what the loop added. *)
RunEnds(run) ==
    /\ outcome' = [status |-> run.status, files |-> run.files]
    /\ collection' = run.collection
    /\ pc' = IF run.status = "returned" THEN "done" ELSE "crashed"
    /\ UNCHANGED <<caller, call, store_calls, returned, now, chunks, handed, overlap,
                   docVars, sessionVars>>

RunIngestWorkspace ==
    /\ pc = "start" /\ caller = "ingest_workspace"
    /\ RunEnds(ingest_workspace(call.files, now))

RunIngestSkills ==
    /\ pc = "start" /\ caller = "ingest_skills"
    /\ RunEnds(ingest_skills(call.files, now))

RunIngestSessions ==
    /\ pc = "start" /\ caller = "ingest_sessions"
    /\ RunEnds(ingest_sessions(call.files, now))

NextIngest == RunIngestWorkspace \/ RunIngestSkills \/ RunIngestSessions

SpecIngest == InitIngest /\ [][NextIngest]_vars

----------------------------------------------------------------------------
(* Whether a file whose read fails is skipped and the run goes on *)

IngestRan == pc \in {"done", "crashed"} /\ caller \in IngestEntryPoints

ReadFails(file) == IF caller = "ingest_sessions" THEN file.fails ELSE ~file.readable

(* The documents of a file that is read whole. *)
DocsOfFile(file, k) ==
    IF caller = "ingest_workspace" THEN WorkspaceFileDocs(file, k, now)
    ELSE IF caller = "ingest_skills" THEN SkillFileDocs(file, k, now)
    ELSE LET r == chunk_messages(parse_jsonl(file.lines), DefaultWindow,
                                 DefaultWindowOverlap, now)
         IN  IF r.raised = "none" THEN r.chunks ELSE <<>>

(* The file at i was skipped, the run returned, and every file after it
   was read, chunked and stored. *)
SkippedAndWentOn(i) ==
    /\ outcome.files[i].docs = <<>>
    /\ outcome.status = "returned"
    /\ \A j \in (i + 1)..Len(call.files) :
          /\ outcome.files[j].reached
          /\ ~ReadFails(call.files[j]) =>
                outcome.files[j].docs = DocsOfFile(call.files[j], j)
          /\ \A n \in 1..Len(outcome.files[j].ids) :
                outcome.files[j].ids[n] \in Ids(collection)

(* C21: in ingest_workspace, ingest_skills and ingest_sessions a file
   whose read fails is skipped: it gives the store no chunk, the run does
   not abort, and every later file of the scan list is read, chunked and
   stored. *)
C21_FailedReadSkipped ==
    IngestRan =>
        \A i \in 1..Len(call.files) : ReadFails(call.files[i]) => SkippedAndWentOn(i)

(* No file of the scan list makes chunk_messages raise. *)
NoChunkingError ==
    \A k \in 1..Len(call.files) :
        caller = "ingest_sessions" =>
            chunk_messages(ParseFile(call.files[k]), DefaultWindow,
                           DefaultWindowOverlap, now).raised = "none"

(* The skip holds for the files among the first 100 of ingest_workspace,
   for ingest_skills, and for ingest_sessions when the read fails before
   the first line and chunk_messages raises on no file. *)
FailedReadSkippedWithinLimits ==
    (IngestRan /\ Len(call.files) <= WorkspaceFileLimit /\ NoChunkingError) =>
        \A i \in 1..Len(call.files) :
            (/\ ReadFails(call.files[i])
             /\ caller = "ingest_sessions" => call.files[i].got = 0)
            => SkippedAndWentOn(i)

====
